---- MODULE Spec2Model ----
(***************************************************************************)
(* Verification model of the LibreDrive core (rust_core):                  *)
(*   - the local fragment store   (p2p/storage_protocol.rs)                *)
(*   - the quota manager          (storage/quota.rs)                       *)
(*   - the erasure codec          (storage/erasure.rs)                     *)
(*   - the file pipeline          (storage/file_manager.rs)                *)
(* Each subsystem has its own specification (Init/Next pair) over the      *)
(* shared variable list; the variables of the other subsystems stay at     *)
(* their construction values.                                              *)
(***************************************************************************)
EXTENDS Integers, Sequences, FiniteSets, TLC

(***************************************************************************)
(* Option<T>: None is the empty sequence, Some(x) the one-element sequence *)
(***************************************************************************)
None == << >>
Some(x) == << x >>
IsSome(o) == Len(o) = 1
Unwrap(o) == o[1]

(***************************************************************************)
(* Bounds of the fragment-store model                                      *)
(***************************************************************************)
MaxStorageBytes == 2
MaxDataLen == 1
MaxTime == 1
MaxDays == 1
MaxAccess == 1
MaxFaults == 1

\* fragment ids are strings of at least two characters (store_fragment
\* slices fragment_id[..2]); they are kept as character sequences
FragIds == { <<"f", "r", "1">>, <<"f", "r", "2">> }
Owners == { "owner-a", "owner-b" }

Zeros(n) == [i \in 1..n |-> 0]
\* payloads offered to store_fragment: one payload of every length
StoreData == { Zeros(n) : n \in 1..MaxDataLen }
\* expires_at arguments: a fragment stored with expires_at = 0 is live at
\* time 0 and expired from time 1 on; renewals by whole days make it live
ExpiryInputs == { 0 }
DayInputs == 1..MaxDays

(***************************************************************************)
(* crypto::ContentHash: BLAKE3 is collision resistant and base58 is        *)
(* injective; both are kept symbolic.                                      *)
(***************************************************************************)
ContentHash(data) == << "blake3", data >>
to_base58(h) == << "b58", h >>

VARIABLES
    \* ---- StorageManager (p2p/storage_protocol.rs) ----
    fragment_index,       \* HashMap<String, StoredFragment>
    used_storage_bytes,   \* u64
    disk,                 \* fragment files under storage_path: path -> bytes
    index_json,           \* the file storage_path/index.json
    now,                  \* chrono::Utc::now().timestamp()
    ret,                  \* the value returned by the last call
    faults,               \* number of I/O failures the environment has injected
    stored,               \* history: the bytes this manager stored under an id and
                          \* has not deleted, re-stored, expired or seen altered since
    \* ---- QuotaManager (storage/quota.rs) ----
    config,               \* QuotaConfig
    quotas,               \* HashMap<String, UserQuota>
    uploads,              \* the uploads in progress: where each one stands
    qret,                 \* the value returned by the last QuotaManager call
    \* ---- ErasureEncoder/Decoder and FileManager (storage/) ----
    erasure_config,       \* ErasureConfig of the encoder, decoder or file manager
    plain,                \* the bytes last given to encode / prepare_upload
    encoded,              \* Result of the last ErasureEncoder::encode
    prepared,             \* Result of the last FileManager::prepare_upload
    meta_in,              \* the FileMetadata a download presents
    slots,                \* the shards a download presents: Vec<Option<_>>
    pret,                 \* the value returned by the last codec / file call
    file_index,           \* FileManager: HashMap<String, FileMetadata>
    hosted,               \* the hosting peers: per peer, fragment id -> bytes
    \* ---- PeerManager (p2p/discovery.rs) ----
    peers,                \* HashMap<String, PeerInfo>
    blacklist,            \* HashMap<String, i64>: peer_id -> blacklist expiry
    hash_order,           \* the order in which the peers map iterates its keys
    first_seen,           \* history: the known peers in the order they were first added
    low_since,            \* history: when update_reliability last left a peer below 0.1
    nret,                 \* the value returned by the last PeerManager call
    \* ---- StorageContract (p2p/protocol.rs) ----
    contract,             \* the contract
    cret,                 \* the value returned by the last StorageContract call
    \* ---- UserIdentity / HeartbeatMessage (identity/mod.rs) ----
    heartbeat,            \* the HeartbeatMessage in hand
    hret,                 \* the value returned by the last heartbeat call
    \* ---- P2PNode (p2p/node.rs) ----
    connected_peers,      \* HashSet<PeerId>
    connections,          \* the swarm: open connections per peer
    inbound,              \* the swarm: requests delivered to the node, with their responses
    last_event            \* the last P2PEvent sent on event_tx

store_vars == << fragment_index, used_storage_bytes, disk, index_json, ret, faults, stored >>
quota_vars == << config, quotas, uploads, qret >>
codec_vars == << erasure_config, plain, encoded, prepared, meta_in, slots, pret >>
drive_vars == << file_index, hosted >>
peer_vars == << peers, blacklist, hash_order, first_seen, low_since, nret >>
contract_vars == << contract, cret >>
beat_vars == << heartbeat, hret >>
node_vars == << connected_peers, connections, inbound, last_event >>
non_store_vars == << drive_vars, quota_vars, codec_vars, peer_vars, contract_vars, beat_vars, node_vars >>
non_quota_vars == << drive_vars, store_vars, codec_vars, peer_vars, contract_vars, beat_vars, node_vars >>
non_codec_vars == << drive_vars, store_vars, quota_vars, now, peer_vars, contract_vars, beat_vars, node_vars >>
non_peer_vars == << drive_vars, store_vars, quota_vars, codec_vars, contract_vars, beat_vars, node_vars >>
non_contract_vars == << drive_vars, store_vars, quota_vars, codec_vars, peer_vars, beat_vars, node_vars >>
non_beat_vars == << drive_vars, store_vars, quota_vars, codec_vars, peer_vars, contract_vars, node_vars >>
non_drive_vars == << store_vars, quota_vars, now, peer_vars, contract_vars, beat_vars, node_vars >>
non_node_vars == << drive_vars, store_vars, quota_vars, codec_vars, peer_vars, contract_vars, beat_vars, now >>
vars == << fragment_index, used_storage_bytes, disk, index_json, now, ret, faults, stored,
           config, quotas, uploads, qret,
           erasure_config, plain, encoded, prepared, meta_in, slots, pret,
           file_index, hosted,
           peers, blacklist, hash_order, first_seen, low_since, nret,
           contract, cret, heartbeat, hret,
           connected_peers, connections, inbound, last_event >>

(***************************************************************************)
(* Helpers over maps                                                       *)
(***************************************************************************)
EmptyMap == [k \in {} |-> 0]
MapPut(m, k, v) == [x \in (DOMAIN m) \cup {k} |-> IF x = k THEN v ELSE m[x]]
MapRemove(m, k) == [x \in (DOMAIN m) \ {k} |-> m[x]]

RECURSIVE SumSizesOver(_, _)
SumSizesOver(idx, keys) ==
    IF keys = {} THEN 0
    ELSE LET k == CHOOSE x \in keys : TRUE
         IN idx[k].size_bytes + SumSizesOver(idx, keys \ {k})

\* self.fragment_index.values().map(|f| f.size_bytes).sum()
SumSizes(idx) == SumSizesOver(idx, DOMAIN idx)

saturating_sub(a, b) == IF a >= b THEN a - b ELSE 0

\* a path made of the two-character prefix alone
local_path_of_mut(fragment_id) == << "fragments", SubSeq(fragment_id, 1, 2) >>

\* format!("fragments/{}/{}", &fragment_id[..2], fragment_id)
local_path_of(fragment_id) == << "fragments", SubSeq(fragment_id, 1, 2), fragment_id >>

(***************************************************************************)
(* The manager state as a value, so that operations that call one another  *)
(* (retrieve -> delete, cleanup -> delete) compose.                        *)
(***************************************************************************)
Mgr == [index |-> fragment_index, used |-> used_storage_bytes,
        disk |-> disk, json |-> index_json]

JsonAbsent == [state |-> "absent", index |-> EmptyMap]
JsonCorrupt == [state |-> "corrupt", index |-> EmptyMap]
JsonOf(idx) == [state |-> "valid", index |-> idx]

\* save_index: serialize the index and write index.json in place.
\* io = "ok": written; "save_fail_clean": the write failed before touching
\* the file; "save_fail_corrupt": the write failed after truncating it.
save_index(m, io) ==
    CASE io = "save_fail_clean" -> [st |-> m, ok |-> FALSE]
      [] io = "save_fail_corrupt" -> [st |-> [m EXCEPT !.json = JsonCorrupt], ok |-> FALSE]
      [] OTHER -> [st |-> [m EXCEPT !.json = JsonOf(m.index)], ok |-> TRUE]

StoreIo == { "ok", "mkdir_fail", "write_fail_clean", "write_fail_partial",
             "save_fail_clean", "save_fail_corrupt" }

\* a capacity check that looks at the bytes in use before the store only
capacity_exceeded_mut(used, size) == used > MaxStorageBytes

\* the capacity check of store_fragment
capacity_exceeded(used, size) == used + size > MaxStorageBytes

\* StorageManager::store_fragment
store_fragment(m, fragment_id, owner_id, data, expires_at, t, io) ==
    LET size == Len(data)
        hash == ContentHash(data)
        local_path == local_path_of(fragment_id)
        fragment == [fragment_id |-> fragment_id,
                     owner_id |-> owner_id,
                     size_bytes |-> size,
                     content_hash |-> to_base58(hash),
                     created_at |-> t,
                     expires_at |-> expires_at,
                     local_path |-> local_path,
                     access_count |-> 0,
                     last_accessed |-> t]
    IN  IF capacity_exceeded(m.used, size)
        THEN [st |-> m, status |-> "insufficient_space", data |-> None]
        ELSE IF io = "mkdir_fail"
        THEN [st |-> m, status |-> "mkdir_failed", data |-> None]
        ELSE IF io = "write_fail_clean"
        THEN [st |-> m, status |-> "write_failed", data |-> None]
        ELSE IF io = "write_fail_partial"
        THEN [st |-> [m EXCEPT !.disk = MapPut(m.disk, local_path, << >>)],
              status |-> "write_failed", data |-> None]
        ELSE LET m1 == [m EXCEPT !.disk = MapPut(m.disk, local_path, data),
                                 !.index = MapPut(m.index, fragment_id, fragment),
                                 !.used = m.used + size]
                 sv == save_index(m1, io)
             IN  IF sv.ok
                 THEN [st |-> sv.st, status |-> "ok", data |-> None]
                 ELSE [st |-> sv.st, status |-> "save_failed", data |-> None]

DeleteIo == { "ok", "remove_fail", "save_fail_clean", "save_fail_corrupt" }

\* StorageManager::delete_fragment
delete_fragment(m, fragment_id, io) ==
    IF fragment_id \in DOMAIN m.index
    THEN LET fragment == m.index[fragment_id]
             m1 == [m EXCEPT !.index = MapRemove(m.index, fragment_id)]
             full_path == fragment.local_path
         IN  IF full_path \in DOMAIN m1.disk /\ io = "remove_fail"
             THEN [st |-> m1, status |-> "remove_failed", data |-> None]
             ELSE LET m2 == [m1 EXCEPT !.disk = MapRemove(m1.disk, full_path),
                                       !.used = saturating_sub(m1.used, fragment.size_bytes)]
                      sv == save_index(m2, io)
                  IN  IF sv.ok
                      THEN [st |-> sv.st, status |-> "ok", data |-> None]
                      ELSE [st |-> sv.st, status |-> "save_failed", data |-> None]
    ELSE [st |-> m, status |-> "ok", data |-> None]

RetrieveIo == DeleteIo \cup { "read_fail" }

\* an expiration check with the comparison turned around
fragment_expired_mut(t, fragment) == t < fragment.expires_at

\* the expiration check of retrieve_fragment
fragment_expired(t, fragment) == t > fragment.expires_at

\* StorageManager::retrieve_fragment
retrieve_fragment(m, fragment_id, t, io) ==
    IF fragment_id \notin DOMAIN m.index
    THEN [st |-> m, status |-> "not_found", data |-> None]
    ELSE LET fragment == m.index[fragment_id]
         IN  IF fragment_expired(t, fragment)
             THEN LET d == delete_fragment(m, fragment_id, io)
                  IN  IF d.status = "ok"
                      THEN [st |-> d.st, status |-> "expired", data |-> None]
                      ELSE d
             ELSE LET bumped == [fragment EXCEPT !.access_count = @ + 1,
                                                 !.last_accessed = t]
                      m1 == [m EXCEPT !.index = MapPut(m.index, fragment_id, bumped)]
                      full_path == fragment.local_path
                  IN  IF full_path \notin DOMAIN m1.disk \/ io = "read_fail"
                      THEN [st |-> m1, status |-> "read_failed", data |-> None]
                      ELSE LET data == m1.disk[full_path]
                               hash == ContentHash(data)
                           IN  IF to_base58(hash) # fragment.content_hash
                               THEN [st |-> m1, status |-> "integrity_failed", data |-> None]
                               ELSE [st |-> m1, status |-> "ok", data |-> Some(data)]


SaveIo == { "ok", "save_fail_clean", "save_fail_corrupt" }

\* StorageManager::extend_fragment
extend_fragment(m, fragment_id, new_expires_at, io) ==
    IF fragment_id \in DOMAIN m.index
    THEN LET m1 == [m EXCEPT !.index[fragment_id].expires_at = new_expires_at]
             sv == save_index(m1, io)
         IN  IF sv.ok
             THEN [st |-> sv.st, status |-> "ok", count |-> 0]
             ELSE [st |-> sv.st, status |-> "save_failed", count |-> 0]
    ELSE [st |-> m, status |-> "ok", count |-> 0]

\* a renewal that does not look at the owner
extend_owner_fragments_mut(m, owner_id, additional_days, t, io) ==
    LET extension == additional_days * 24 * 60 * 60
        count == Cardinality(DOMAIN m.index)
        m1 == [m EXCEPT !.index = [k \in DOMAIN m.index |->
                    [m.index[k] EXCEPT !.expires_at = t + extension]]]
    IN  IF count > 0
        THEN LET sv == save_index(m1, io)
             IN  IF sv.ok
                 THEN [st |-> sv.st, status |-> "ok", count |-> count]
                 ELSE [st |-> sv.st, status |-> "save_failed", count |-> 0]
        ELSE [st |-> m1, status |-> "ok", count |-> count]

\* StorageManager::extend_owner_fragments
extend_owner_fragments(m, owner_id, additional_days, t, io) ==
    LET extension == additional_days * 24 * 60 * 60
        owned == { k \in DOMAIN m.index : m.index[k].owner_id = owner_id }
        count == Cardinality(owned)
        m1 == [m EXCEPT !.index = [k \in DOMAIN m.index |->
                    IF k \in owned
                    THEN [m.index[k] EXCEPT !.expires_at = t + extension]
                    ELSE m.index[k]]]
    IN  IF count > 0
        THEN LET sv == save_index(m1, io)
             IN  IF sv.ok
                 THEN [st |-> sv.st, status |-> "ok", count |-> count]
                 ELSE [st |-> sv.st, status |-> "save_failed", count |-> 0]
        ELSE [st |-> m1, status |-> "ok", count |-> count]

\* a collection that also takes the entries expiring this very second
ExpiredIds_mut(m, t) == { k \in DOMAIN m.index : t >= m.index[k].expires_at }

\* the ids cleanup_expired collects: entries with now > expires_at
ExpiredIds(m, t) == { k \in DOMAIN m.index : t > m.index[k].expires_at }

\* the for loop of cleanup_expired over the collected ids, in the order the
\* HashMap iterator produced them; the first failing delete aborts the loop
RECURSIVE cleanup_loop(_, _, _)
cleanup_loop(m, order, ios) ==
    IF order = << >> THEN [st |-> m, status |-> "ok"]
    ELSE LET d == delete_fragment(m, Head(order), Head(ios))
         IN  IF d.status = "ok"
             THEN cleanup_loop(d.st, Tail(order), Tail(ios))
             ELSE [st |-> d.st, status |-> d.status]

\* StorageManager::cleanup_expired
cleanup_expired(m, t, order, ios) ==
    LET count == Len(order)
        r == cleanup_loop(m, order, ios)
    IN  IF r.status = "ok"
        THEN [st |-> r.st, status |-> "ok", count |-> count]
        ELSE [st |-> r.st, status |-> r.status, count |-> 0]

\* all orders in which a HashMap iterator can yield the keys of a set
Orders(S) == { o \in [1..Cardinality(S) -> S] : \A i, j \in DOMAIN o : i # j => o[i] # o[j] }

InitIo == { "ok", "read_fail" }

\* StorageManager::new followed by StorageManager::initialize
initialize(m, io) ==
    LET fresh == [m EXCEPT !.index = EmptyMap, !.used = 0]
    IN  IF m.json.state = "absent"
        THEN [st |-> fresh, status |-> "ok"]
        ELSE IF io = "read_fail" \/ m.json.state = "corrupt"
        THEN [st |-> fresh, status |-> "init_failed"]
        ELSE [st |-> [fresh EXCEPT !.index = m.json.index,
                                   !.used = SumSizes(m.json.index)],
              status |-> "ok"]

(***************************************************************************)
(* Fragment-store actions                                                  *)
(***************************************************************************)
Result(op, id, status, data, count) ==
    [op |-> op, id |-> id, status |-> status, data |-> data, count |-> count]

NoId == << >>

SetMgr(st) ==
    /\ fragment_index' = st.index
    /\ used_storage_bytes' = st.used
    /\ disk' = st.disk
    /\ index_json' = st.json

\* the I/O outcomes the environment may still choose from
Io(all) == IF faults < MaxFaults THEN all ELSE { "ok" }

\* an I/O failure is injected only where it changes the outcome of the call,
\* and at most MaxFaults of them in one behaviour
Inject(io, r, r_ok) ==
    IF io = "ok"
    THEN faults' = faults
    ELSE /\ faults < MaxFaults
         /\ r # r_ok
         /\ faults' = faults + 1

StoreFragment ==
    \E fragment_id \in FragIds, owner_id \in Owners, data \in StoreData,
       expires_at \in ExpiryInputs, io \in Io(StoreIo) :
        LET r == store_fragment(Mgr, fragment_id, owner_id, data, expires_at, now, io)
            r_ok == store_fragment(Mgr, fragment_id, owner_id, data, expires_at, now, "ok")
        IN  /\ Inject(io, r, r_ok)
            /\ SetMgr(r.st)
            /\ ret' = Result("store", fragment_id, r.status, Some(data), 0)
            /\ stored' = [stored EXCEPT ![fragment_id] =
                             IF r.status = "ok" THEN Some(data)
                             ELSE IF r.st.disk = disk /\ r.st.index = fragment_index THEN @
                             ELSE None]
            /\ UNCHANGED << now, non_store_vars >>

RetrieveFragment ==
    \E fragment_id \in FragIds, io \in Io(RetrieveIo) :
        /\ fragment_id \in DOMAIN fragment_index =>
              fragment_index[fragment_id].access_count < MaxAccess
        /\ LET r == retrieve_fragment(Mgr, fragment_id, now, io)
               r_ok == retrieve_fragment(Mgr, fragment_id, now, "ok")
           IN  /\ Inject(io, r, r_ok)
               /\ SetMgr(r.st)
               /\ ret' = Result("retrieve", fragment_id, r.status, r.data, 0)
               /\ stored' = IF fragment_id \in DOMAIN fragment_index
                                /\ now > fragment_index[fragment_id].expires_at
                             THEN [stored EXCEPT ![fragment_id] = None]
                             ELSE stored
        /\ UNCHANGED << now, non_store_vars >>

DeleteFragment ==
    \E fragment_id \in FragIds, io \in Io(DeleteIo) :
        LET r == delete_fragment(Mgr, fragment_id, io)
            r_ok == delete_fragment(Mgr, fragment_id, "ok")
        IN  /\ Inject(io, r, r_ok)
            /\ SetMgr(r.st)
            /\ ret' = Result("delete", fragment_id, r.status, None, 0)
            /\ stored' = [stored EXCEPT ![fragment_id] = None]
            /\ UNCHANGED << now, non_store_vars >>

ExtendFragment ==
    \E fragment_id \in FragIds, new_expires_at \in ExpiryInputs, io \in Io(SaveIo) :
        LET r == extend_fragment(Mgr, fragment_id, new_expires_at, io)
            r_ok == extend_fragment(Mgr, fragment_id, new_expires_at, "ok")
        IN  /\ Inject(io, r, r_ok)
            /\ SetMgr(r.st)
            /\ ret' = Result("extend", fragment_id, r.status, None, 0)
            /\ stored' = stored
            /\ UNCHANGED << now, non_store_vars >>

ExtendOwnerFragments ==
    \E owner_id \in Owners, additional_days \in DayInputs, io \in Io(SaveIo) :
        LET r == extend_owner_fragments(Mgr, owner_id, additional_days, now, io)
            r_ok == extend_owner_fragments(Mgr, owner_id, additional_days, now, "ok")
        IN  /\ Inject(io, r, r_ok)
            /\ SetMgr(r.st)
            /\ ret' = Result("extend_owner", owner_id, r.status, None, r.count)
            /\ stored' = stored
            /\ UNCHANGED << now, non_store_vars >>

CleanupExpired ==
    \E order \in Orders(ExpiredIds(Mgr, now)) :
      \E failAt \in 0..Len(order), fio \in Io(DeleteIo) :
        LET ios == [i \in 1..Len(order) |-> IF i = failAt THEN fio ELSE "ok"]
            oks == [i \in 1..Len(order) |-> "ok"]
            r == cleanup_expired(Mgr, now, order, ios)
            r_ok == cleanup_expired(Mgr, now, order, oks)
        IN  /\ Inject(IF ios = oks THEN "ok" ELSE fio, r, r_ok)
            /\ SetMgr(r.st)
            /\ ret' = Result("cleanup", NoId, r.status, None, r.count)
            /\ stored' = [id \in FragIds |->
                             IF id \in DOMAIN fragment_index
                                /\ now > fragment_index[id].expires_at
                             THEN None ELSE stored[id]]
            /\ UNCHANGED << now, non_store_vars >>

\* process restart: a new StorageManager over the same directory, initialized
Restart ==
    \E io \in Io(InitIo) :
        LET r == initialize(Mgr, io)
            r_ok == initialize(Mgr, "ok")
        IN  /\ Inject(io, r, r_ok)
            /\ SetMgr(r.st)
            /\ ret' = Result("initialize", NoId, r.status, None, 0)
            /\ stored' = [id \in FragIds |-> None]
            /\ UNCHANGED << now, non_store_vars >>

\* something outside the program flips byte 0 of a stored fragment file
FlipByte0(data) == [data EXCEPT ![1] = 1 - @]

TamperFile ==
    \E path \in DOMAIN disk :
        /\ Len(disk[path]) >= 1
        /\ disk[path][1] = 0
        /\ disk' = [disk EXCEPT ![path] = FlipByte0(@)]
        /\ ret' = Result("tamper", path[3], "ok", None, 0)
        /\ stored' = [stored EXCEPT ![path[3]] = None]
        /\ UNCHANGED << fragment_index, used_storage_bytes, index_json, now, faults, non_store_vars >>

Tick ==
    /\ now < MaxTime
    /\ now' = now + 1
    /\ ret' = Result("tick", NoId, "ok", None, 0)
    /\ UNCHANGED << fragment_index, used_storage_bytes, disk, index_json, faults, stored,
                    non_store_vars >>

(***************************************************************************)
(* Quota manager (storage/quota.rs)                                        *)
(***************************************************************************)
\* bounds of the quota model
MaxSize == 3
MaxBytes == 4
MaxCount == 2

Users == { "user1" }
Tasks == { 1, 2 }
SizeInputs == 0..MaxSize
\* contribution_ratio values, as fractions num/den: 1.0 and 1.5
Ratios == { << 1, 1 >>, << 3, 2 >> }
GraceInputs == { 0, MaxTime }

\* QuotaConfig, with the byte amounts scaled down
QuotaConfigs ==
    [min_contribution : { 2 }, max_usage : { 3 },
     contribution_ratio : Ratios, grace_period_secs : GraceInputs]

DefaultQuotaConfig ==
    [min_contribution |-> 2, max_usage |-> 3,
     contribution_ratio |-> << 1, 1 >>, grace_period_secs |-> MaxTime]

\* (x as f64 / ratio) as u64: the quotient truncated toward zero
div_ratio(x, ratio) == (x * ratio[2]) \div ratio[1]
\* (x as f64 * ratio) as u64
mul_ratio(x, ratio) == (x * ratio[1]) \div ratio[2]

Min(a, b) == IF a <= b THEN a ELSE b

\* UserQuota::new
UserQuota_new(user_id, t) ==
    [user_id |-> user_id, bytes_used |-> 0, bytes_contributed |-> 0,
     files_count |-> 0, shards_hosted |-> 0, joined_at |-> t,
     last_active |-> t, in_grace_period |-> TRUE]

\* UserQuota::available_storage
available_storage(q, cfg) ==
    IF q.in_grace_period
    THEN cfg.min_contribution
    ELSE LET allowed == div_ratio(q.bytes_contributed, cfg.contribution_ratio)
         IN  saturating_sub(Min(allowed, cfg.max_usage), q.bytes_used)

\* UserQuota::can_upload
UserQuota_can_upload(q, size, cfg) == available_storage(q, cfg) >= size

\* UserQuota::check_grace_period
check_grace_period(q, cfg, t) ==
    IF q.in_grace_period /\ (t - q.joined_at) > cfg.grace_period_secs
    THEN [q EXCEPT !.in_grace_period = FALSE]
    ELSE q

\* QuotaManager::get_user_quota: the table with the user's entry created
get_user_quota(qs, user_id, t) ==
    IF user_id \notin DOMAIN qs
    THEN MapPut(qs, user_id, UserQuota_new(user_id, t))
    ELSE qs

\* QuotaManager::calculate_needed_contribution, leaving out the new upload
calculate_needed_contribution_mut(qs, cfg, user_id, additional_bytes) ==
    LET quota == qs[user_id]
        contribution_needed == mul_ratio(quota.bytes_used, cfg.contribution_ratio)
    IN  saturating_sub(contribution_needed, quota.bytes_contributed)

\* QuotaManager::calculate_needed_contribution
calculate_needed_contribution(qs, cfg, user_id, additional_bytes) ==
    LET quota == qs[user_id]
        total_needed == quota.bytes_used + additional_bytes
        contribution_needed == mul_ratio(total_needed, cfg.contribution_ratio)
    IN  saturating_sub(contribution_needed, quota.bytes_contributed)

Allowed == [kind |-> "Allowed", current_contribution |-> 0, needed_contribution |-> 0]
InsufficientQuota(current, needed) ==
    [kind |-> "InsufficientQuota", current_contribution |-> current,
     needed_contribution |-> needed]

\* QuotaManager::can_upload
can_upload(qs, cfg, user_id, size, t) ==
    LET qs1 == get_user_quota(qs, user_id, t)
        qs2 == [qs1 EXCEPT ![user_id] = check_grace_period(@, cfg, t)]
        quota == qs2[user_id]
    IN  [quotas |-> qs2,
         result |-> IF UserQuota_can_upload(quota, size, cfg)
                    THEN Allowed
                    ELSE InsufficientQuota(
                             quota.bytes_contributed,
                             calculate_needed_contribution(qs2, cfg, user_id, size))]

\* QuotaManager::record_upload
record_upload(qs, user_id, size, t) ==
    LET qs1 == get_user_quota(qs, user_id, t)
    IN  [qs1 EXCEPT ![user_id].bytes_used = @ + size,
                    ![user_id].files_count = @ + 1,
                    ![user_id].last_active = t]

\* QuotaManager::record_deletion
record_deletion(qs, user_id, size) ==
    IF user_id \in DOMAIN qs
    THEN [qs EXCEPT ![user_id].bytes_used = saturating_sub(@, size),
                    ![user_id].files_count = saturating_sub(@, 1)]
    ELSE qs

\* QuotaManager::record_shard_hosted
record_shard_hosted(qs, user_id, shard_size, t) ==
    LET qs1 == get_user_quota(qs, user_id, t)
    IN  [qs1 EXCEPT ![user_id].bytes_contributed = @ + shard_size,
                    ![user_id].shards_hosted = @ + 1,
                    ![user_id].last_active = t]

\* QuotaManager::record_shard_removed
record_shard_removed(qs, user_id, shard_size) ==
    IF user_id \in DOMAIN qs
    THEN [qs EXCEPT ![user_id].bytes_contributed = saturating_sub(@, shard_size),
                    ![user_id].shards_hosted = saturating_sub(@, 1)]
    ELSE qs

(***************************************************************************)
(* Quota actions.  An upload is the caller's sequence can_upload, then, if *)
(* the answer is Allowed, record_upload; each call takes &mut self and is  *)
(* atomic, the pair is not.                                                *)
(***************************************************************************)
QResult(op, task, user_id, size, result) ==
    [op |-> op, task |-> task, user |-> user_id, size |-> size, result |-> result]

Idle == [pc |-> "idle", user |-> "", size |-> 0]

\* the counters stay within the bounds of the model
InBounds(qs) ==
    \A u \in DOMAIN qs :
        /\ qs[u].bytes_used <= MaxBytes
        /\ qs[u].bytes_contributed <= MaxBytes
        /\ qs[u].files_count <= MaxCount
        /\ qs[u].shards_hosted <= MaxCount

\* an upload asks for admission
CanUpload ==
    \E task \in Tasks, user_id \in Users, size \in SizeInputs :
        /\ uploads[task].pc = "idle"
        /\ LET r == can_upload(quotas, config, user_id, size, now)
           IN  /\ quotas' = r.quotas
               /\ qret' = QResult("can_upload", task, user_id, size, r.result)
               /\ uploads' = [uploads EXCEPT ![task] =
                     IF r.result.kind = "Allowed"
                     THEN [pc |-> "admitted", user |-> user_id, size |-> size]
                     ELSE Idle]
        /\ UNCHANGED << config, now, non_quota_vars >>

\* an admitted upload is recorded
RecordUpload ==
    \E task \in Tasks :
        /\ uploads[task].pc = "admitted"
        /\ LET user_id == uploads[task].user
               size == uploads[task].size
               qs == record_upload(quotas, user_id, size, now)
           IN  /\ InBounds(qs)
               /\ quotas' = qs
               /\ qret' = QResult("record_upload", task, user_id, size, Allowed)
        /\ uploads' = [uploads EXCEPT ![task] = Idle]
        /\ UNCHANGED << config, now, non_quota_vars >>

RecordDeletion ==
    \E user_id \in Users, size \in SizeInputs :
        /\ quotas' = record_deletion(quotas, user_id, size)
        /\ qret' = QResult("record_deletion", 0, user_id, size, Allowed)
        /\ UNCHANGED << config, uploads, now, non_quota_vars >>

RecordShardHosted ==
    \E user_id \in Users, shard_size \in SizeInputs :
        LET qs == record_shard_hosted(quotas, user_id, shard_size, now)
        IN  /\ InBounds(qs)
            /\ quotas' = qs
            /\ qret' = QResult("record_shard_hosted", 0, user_id, shard_size, Allowed)
            /\ UNCHANGED << config, uploads, now, non_quota_vars >>

RecordShardRemoved ==
    \E user_id \in Users, shard_size \in SizeInputs :
        /\ quotas' = record_shard_removed(quotas, user_id, shard_size)
        /\ qret' = QResult("record_shard_removed", 0, user_id, shard_size, Allowed)
        /\ UNCHANGED << config, uploads, now, non_quota_vars >>

QuotaTick ==
    /\ now < MaxTime
    /\ now' = now + 1
    /\ qret' = QResult("tick", 0, "", 0, Allowed)
    /\ UNCHANGED << config, quotas, uploads, non_quota_vars >>

\* QuotaManager::new
QuotaNew(cfg) ==
    /\ config = cfg
    /\ quotas = EmptyMap
    /\ uploads = [t \in Tasks |-> Idle]
    /\ qret = QResult("new", 0, "", 0, Allowed)

(***************************************************************************)
(* Results and errors (storage/mod.rs)                                     *)
(***************************************************************************)
Ok(v) == [ok |-> TRUE, val |-> v]
Fail(e) == [ok |-> FALSE, err |-> e]

\* StorageError
ErasureCoding(msg) == [kind |-> "ErasureCoding", msg |-> msg, have |-> 0, need |-> 0]
InsufficientFragments(have, need) ==
    [kind |-> "InsufficientFragments", msg |-> "", have |-> have, need |-> need]
Encryption(msg) == [kind |-> "Encryption", msg |-> msg, have |-> 0, need |-> 0]
IntegrityCheckFailed == [kind |-> "IntegrityCheckFailed", msg |-> "", have |-> 0, need |-> 0]

(***************************************************************************)
(* Reed-Solomon over GF(2^8) (crate reed_solomon_erasure, galois_8), as    *)
(* ErasureEncoder and ErasureDecoder use it.  The code is systematic: the  *)
(* byte at each position of shard i is the value at the point i of the     *)
(* polynomial of degree < data_shards through the data shards' bytes.      *)
(***************************************************************************)
\* bounds of the erasure model
MaxDataShards == 2
MaxParityShards == 2
MaxLen == 3

PayloadBytes == { 1, 200 }
Payloads == UNION { [1..n -> PayloadBytes] : n \in 0..MaxLen }
ErasureConfigs == [data_shards : 0..MaxDataShards, parity_shards : 0..MaxParityShards]

\* ErasureConfig::default
DefaultErasureConfig == [data_shards |-> 10, parity_shards |-> 4]
\* ErasureConfig::total_shards
total_shards(cfg) == cfg.data_shards + cfg.parity_shards

\* addition in GF(2^8): bitwise exclusive or
RECURSIVE Xor(_, _)
Xor(a, b) ==
    IF a = 0 THEN b
    ELSE IF b = 0 THEN a
    ELSE ((a + b) % 2) + 2 * Xor(a \div 2, b \div 2)

\* multiplication by x modulo x^8 + x^4 + x^3 + x^2 + 1
gf_double(a) == IF 2 * a < 256 THEN 2 * a ELSE Xor(2 * a - 256, 29)

\* multiplication in GF(2^8)
RECURSIVE gf_mul(_, _)
gf_mul(a, b) ==
    IF b = 0 THEN 0
    ELSE Xor(IF b % 2 = 1 THEN a ELSE 0, gf_mul(gf_double(a), b \div 2))

\* a to the power n
RECURSIVE gf_pow(_, _)
gf_pow(a, n) ==
    IF n = 0 THEN 1
    ELSE LET half == gf_pow(a, n \div 2)
             square == gf_mul(half, half)
         IN  IF n % 2 = 1 THEN gf_mul(square, a) ELSE square

\* the multiplicative inverse of a nonzero element: a^254
gf_inv(a) == gf_pow(a, 254)

\* the product of (y - x) over the points x of S
RECURSIVE gf_prod(_, _)
gf_prod(y, S) ==
    IF S = {} THEN 1
    ELSE LET x == CHOOSE z \in S : TRUE
         IN  gf_mul(Xor(y, x), gf_prod(y, S \ {x}))

\* the Lagrange coefficient of the point xj of xs, evaluated at y
lagrange(xs, xj, y) ==
    gf_mul(gf_prod(y, xs \ {xj}), gf_inv(gf_prod(xj, xs \ {xj})))

\* coefficient * shard, byte by byte
gf_scale(c, shard) == [b \in DOMAIN shard |-> gf_mul(c, shard[b])]
\* shard + shard, byte by byte
gf_add(s1, s2) == [b \in DOMAIN s1 |-> Xor(s1[b], s2[b])]

\* the shard at the point y of the code word through the shards at the points xs;
\* shard_at[x] is the shard at the point x
RECURSIVE rs_combine(_, _, _, _, _)
rs_combine(xs, todo, shard_at, y, shard_size) ==
    IF todo = {} THEN Zeros(shard_size)
    ELSE LET x == CHOOSE z \in todo : TRUE
         IN  gf_add(gf_scale(lagrange(xs, x, y), shard_at[x]),
                    rs_combine(xs, todo \ {x}, shard_at, y, shard_size))

\* ReedSolomon::new
ReedSolomon_new(k, m) ==
    IF k = 0 THEN Fail("TooFewDataShards")
    ELSE IF m = 0 THEN Fail("TooFewParityShards")
    ELSE IF k + m > 256 THEN Fail("TooManyShards")
    ELSE Ok([data_shard_count |-> k, parity_shard_count |-> m])

\* ReedSolomon::encode: fills the parity shards from the data shards
rs_encode(shards, k, m) ==
    IF Len(shards[1]) = 0 THEN Fail("EmptyShard")
    ELSE LET shard_size == Len(shards[1])
             points == 0..(k - 1)
             shard_at == [x \in points |-> shards[x + 1]]
         IN  Ok([i \in 1..(k + m) |->
                    IF i <= k THEN shards[i]
                    ELSE rs_combine(points, points, shard_at, i - 1, shard_size)])

\* the k lowest elements of S
FirstK(S, k) == { i \in S : Cardinality({ j \in S : j < i }) < k }

\* ReedSolomon::reconstruct: fills the missing shards from the first k present
rs_reconstruct(shard_data, k, m) ==
    LET present == { i \in DOMAIN shard_data : IsSome(shard_data[i]) }
    IN  IF Len(shard_data) < k + m THEN Fail("TooFewShards")
        ELSE IF Len(shard_data) > k + m THEN Fail("TooManyShards")
        ELSE IF \E i \in present : Len(Unwrap(shard_data[i])) = 0 THEN Fail("EmptyShard")
        ELSE IF \E i, j \in present :
                   Len(Unwrap(shard_data[i])) # Len(Unwrap(shard_data[j]))
             THEN Fail("IncorrectShardSize")
        ELSE IF Cardinality(present) = k + m THEN Ok(shard_data)
        ELSE IF Cardinality(present) < k THEN Fail("TooFewShardsPresent")
        ELSE LET used == FirstK(present, k)
                 points == { i - 1 : i \in used }
                 shard_at == [x \in points |-> Unwrap(shard_data[x + 1])]
                 shard_size == Len(Unwrap(shard_data[CHOOSE i \in used : TRUE]))
             IN  Ok([i \in 1..(k + m) |->
                        IF i \in present THEN shard_data[i]
                        ELSE Some(rs_combine(points, points, shard_at, i - 1, shard_size))])

(***************************************************************************)
(* ErasureEncoder and ErasureDecoder (storage/erasure.rs)                  *)
(***************************************************************************)
\* ErasureEncoder::calculate_shard_size, rounding down instead of up
calculate_shard_size_mut(data_len, k) == data_len \div k

\* ErasureEncoder::calculate_shard_size
calculate_shard_size(data_len, k) == (data_len + k - 1) \div k

\* ErasureEncoder::new followed by ErasureEncoder::encode
encode(data, cfg) ==
    LET k == cfg.data_shards
        m == cfg.parity_shards
        rs == ReedSolomon_new(k, m)
    IN  IF ~rs.ok THEN Fail(ErasureCoding(rs.err))
        ELSE
        LET shard_size == calculate_shard_size(Len(data), k)
            data_shard(i) ==
                LET start == i * shard_size
                    end == Min(start + shard_size, Len(data))
                    shard == IF start < Len(data) THEN SubSeq(data, start + 1, end)
                             ELSE << >>
                IN  shard \o Zeros(shard_size - Len(shard))
            shards == [i \in 1..(k + m) |->
                          IF i <= k THEN data_shard(i - 1) ELSE Zeros(shard_size)]
            enc == rs_encode(shards, k, m)
        IN  IF ~enc.ok THEN Fail(ErasureCoding(enc.err))
            ELSE Ok([i \in 1..(k + m) |->
                        [index |-> i - 1,
                         data |-> enc.val[i],
                         is_parity |-> (i - 1) >= k,
                         original_size |-> Len(enc.val[i])]])

\* the concatenation of the first n shards
RECURSIVE concat_shards(_, _)
concat_shards(shard_data, n) ==
    IF n = 0 THEN << >>
    ELSE concat_shards(shard_data, n - 1) \o Unwrap(shard_data[n])

\* Vec::truncate
truncate(v, len) == IF len < Len(v) THEN SubSeq(v, 1, len) ELSE v

\* ErasureDecoder::new followed by ErasureDecoder::decode;
\* shards is a Vec<Option<Shard>>
decode(shards, original_size, cfg) ==
    LET k == cfg.data_shards
        m == cfg.parity_shards
        rs == ReedSolomon_new(k, m)
        available == Cardinality({ i \in DOMAIN shards : IsSome(shards[i]) })
    IN  IF ~rs.ok THEN Fail(ErasureCoding(rs.err))
        ELSE IF Len(shards) # total_shards(cfg)
        THEN Fail(ErasureCoding("Expected total_shards shards"))
        ELSE IF available < k THEN Fail(InsufficientFragments(available, k))
        ELSE
        LET shard_data == [i \in DOMAIN shards |->
                              IF IsSome(shards[i]) THEN Some(Unwrap(shards[i]).data)
                              ELSE None]
            rec == rs_reconstruct(shard_data, k, m)
        IN  IF ~rec.ok THEN Fail(ErasureCoding(rec.err))
            ELSE IF \E i \in 1..k : ~IsSome(rec.val[i])
            THEN Fail(ErasureCoding("Reconstruction failed"))
            ELSE Ok(truncate(concat_shards(rec.val, k), original_size))

(***************************************************************************)
(* Codec actions                                                           *)
(***************************************************************************)
PResult(op, r) ==
    [op |-> op,
     status |-> IF r.ok THEN "Ok" ELSE r.err.kind,
     data |-> IF r.ok THEN Some(r.val) ELSE None,
     have |-> IF r.ok THEN 0 ELSE r.err.have,
     need |-> IF r.ok THEN 0 ELSE r.err.need,
     plaintext |-> None]

NotCalled == Fail(ErasureCoding("not called"))
NoResult(op) ==
    [op |-> op, status |-> "", data |-> None, have |-> 0, need |-> 0, plaintext |-> None]

\* encoder.encode(data): the shards go out to the network; a behaviour
\* follows the one input its encoder encodes first
Encode ==
    \E data \in Payloads :
        pret.op = "new" /\
        LET r == encode(data, erasure_config)
        IN  /\ plain' = data
            /\ encoded' = r
            /\ slots' = IF r.ok THEN [i \in DOMAIN r.val |-> Some(r.val[i])] ELSE << >>
            /\ pret' = [PResult("encode", r) EXCEPT !.data = None]
            /\ UNCHANGED << erasure_config, prepared, meta_in, non_codec_vars >>

\* a shard is lost: the download presents None in its slot
DropShard ==
    \E i \in DOMAIN slots :
        /\ IsSome(slots[i])
        /\ slots' = [slots EXCEPT ![i] = None]
        /\ pret' = NoResult("drop")
        /\ UNCHANGED << erasure_config, plain, encoded, prepared, meta_in, non_codec_vars >>

\* decoder.decode(shards, original_size) with the size of the encoded input
Decode ==
    /\ pret' = PResult("decode", decode(slots, Len(plain), erasure_config))
    /\ UNCHANGED << erasure_config, plain, encoded, prepared, meta_in, slots,
                    non_codec_vars >>

\* an encoder, decoder or file manager constructed with the configuration cfg
\* the peers that host shards
HostPeers == { "peer1", "peer2" }

CodecNew(cfg) ==
    /\ erasure_config = cfg
    /\ plain = << >>
    /\ encoded = NotCalled
    /\ prepared = NotCalled
    /\ meta_in = None
    /\ slots = << >>
    /\ pret = NoResult("new")
    /\ file_index = EmptyMap
    /\ hosted = [p \in HostPeers |-> EmptyMap]

(***************************************************************************)
(* Encryption (crypto/encryption.rs).  AES-256-GCM is modelled by a keyed  *)
(* additive stream cipher with a keyed checksum as the tag: the lengths,   *)
(* the layout nonce || ciphertext || tag and the failure on a changed      *)
(* nonce, ciphertext, tag or key are those of the cipher.                  *)
(***************************************************************************)
NONCE_SIZE == 12
KEY_SIZE == 32
TAG_SIZE == 16
CHUNK_SIZE == 64 * 1024

\* bound of the file model
MaxFileLen == 1
MaxCorrupt == 1

FilePayloads == UNION { [1..n -> PayloadBytes] : n \in 0..MaxFileLen }
KeyOf(c) == [i \in 1..KEY_SIZE |-> c]
NonceOf(c) == [i \in 1..NONCE_SIZE |-> c]
\* what EncryptionKey::generate and the two calls of OsRng.fill_bytes may return
Randoms ==
    { [file_key |-> KeyOf(5), nonce |-> NonceOf(1), key_nonce |-> NonceOf(2)],
      [file_key |-> KeyOf(6), nonce |-> NonceOf(2), key_nonce |-> NonceOf(1)] }
\* UserIdentity: the master encryption key and the public id
Identity == [encryption_key |-> KeyOf(9), public_id |-> "owner"]

RECURSIVE SumSeq(_)
SumSeq(v) == IF v = << >> THEN 0 ELSE v[1] + SumSeq(Tail(v))

keystream(key, nonce, i) == (key[1] + nonce[1] + i) % 256

aead_tag(key, nonce, ct) ==
    LET base == SumSeq(key) + 3 * SumSeq(nonce) + 7 * SumSeq(ct) + 31 * Len(ct)
    IN  [j \in 1..TAG_SIZE |-> (base + j) % 256]

\* cipher.encrypt(nonce, plaintext): ciphertext || tag
aead_seal(key, nonce, plaintext) ==
    LET ct == [i \in 1..Len(plaintext) |->
                  (plaintext[i] + keystream(key, nonce, i)) % 256]
    IN  ct \o aead_tag(key, nonce, ct)

\* cipher.decrypt(nonce, ciphertext || tag)
aead_open(key, nonce, sealed) ==
    LET n == Len(sealed) - TAG_SIZE
        ct == SubSeq(sealed, 1, n)
        tag == SubSeq(sealed, n + 1, Len(sealed))
    IN  IF tag # aead_tag(key, nonce, ct) THEN Fail("DecryptionFailed")
        ELSE Ok([i \in 1..n |-> (ct[i] + 256 - keystream(key, nonce, i)) % 256])

\* EncryptionKey::encrypt with the nonce OsRng returned
EncryptionKey_encrypt(key, nonce, plaintext) == nonce \o aead_seal(key, nonce, plaintext)

\* EncryptionKey::decrypt
EncryptionKey_decrypt(key, ciphertext) ==
    IF Len(ciphertext) < NONCE_SIZE + TAG_SIZE THEN Fail("DecryptionFailed")
    ELSE aead_open(key, SubSeq(ciphertext, 1, NONCE_SIZE),
                   SubSeq(ciphertext, NONCE_SIZE + 1, Len(ciphertext)))

\* the chunks of data.chunks(chunk_size)
chunk_count(len, chunk_size) == (len + chunk_size - 1) \div chunk_size

\* FileEncryptor::encrypt_file; every chunk gets the nonce OsRng returned
RECURSIVE encrypt_chunks(_, _, _, _, _)
encrypt_chunks(key, nonce, data, chunk_size, n) ==
    IF n = 0 THEN [data |-> << >>, chunk_offsets |-> << >>]
    ELSE LET before == encrypt_chunks(key, nonce, data, chunk_size, n - 1)
             chunk == SubSeq(data, (n - 1) * chunk_size + 1, Min(n * chunk_size, Len(data)))
         IN  [data |-> before.data \o EncryptionKey_encrypt(key, nonce, chunk),
              chunk_offsets |-> Append(before.chunk_offsets, Len(before.data))]

encrypt_file(key, nonce, data) ==
    LET enc == encrypt_chunks(key, nonce, data, CHUNK_SIZE, chunk_count(Len(data), CHUNK_SIZE))
    IN  [data |-> enc.data,
         chunk_offsets |-> enc.chunk_offsets,
         original_size |-> Len(data),
         chunk_size |-> CHUNK_SIZE]

\* a usize beyond the integers of the model (2^31 and above)
Huge == 2147483647

\* FileEncryptor::decrypt_file: "Ok", "Err" or "Panic" with the plaintext
RECURSIVE decrypt_chunks(_, _, _, _)
decrypt_chunks(key, encrypted, i, plaintext) ==
    IF i > Len(encrypted.chunk_offsets) THEN [status |-> "Ok", plaintext |-> plaintext]
    ELSE LET start == encrypted.chunk_offsets[i]
             end == IF i + 1 <= Len(encrypted.chunk_offsets)
                    THEN encrypted.chunk_offsets[i + 1]
                    ELSE Len(encrypted.data)
         IN  IF start > end \/ end > Len(encrypted.data)
             THEN [status |-> "Panic", plaintext |-> << >>]
             ELSE LET chunk == EncryptionKey_decrypt(key, SubSeq(encrypted.data, start + 1, end))
                  IN  IF ~chunk.ok THEN [status |-> "Err", plaintext |-> << >>]
                      ELSE decrypt_chunks(key, encrypted, i + 1, plaintext \o chunk.val)

decrypt_file(key, encrypted) ==
    IF encrypted.original_size = Huge
    THEN [status |-> "Panic", plaintext |-> << >>]
    ELSE decrypt_chunks(key, encrypted, 1, << >>)

(***************************************************************************)
(* bincode of EncryptedFile: u64 little-endian lengths and usizes          *)
(***************************************************************************)
u64_le(n) == [i \in 1..8 |-> IF i <= 4 THEN (n \div (256 ^ (i - 1))) % 256 ELSE 0]

RECURSIVE u64_le_all(_)
u64_le_all(v) == IF v = << >> THEN << >> ELSE u64_le(v[1]) \o u64_le_all(Tail(v))

\* the u64 at the offset pos of bytes
read_u64(bytes, pos) ==
    IF pos + 8 > Len(bytes) THEN Fail("UnexpectedEof")
    ELSE IF \/ \E i \in 5..8 : bytes[pos + i] # 0
            \/ bytes[pos + 4] >= 128
         THEN Ok(Huge)
         ELSE Ok(bytes[pos + 1] + 256 * bytes[pos + 2] + 65536 * bytes[pos + 3]
                 + 16777216 * bytes[pos + 4])

\* EncryptedFile::to_bytes
to_bytes(encrypted) ==
    u64_le(Len(encrypted.data)) \o encrypted.data
    \o u64_le(Len(encrypted.chunk_offsets)) \o u64_le_all(encrypted.chunk_offsets)
    \o u64_le(encrypted.original_size)
    \o u64_le(encrypted.chunk_size)

\* EncryptedFile::from_bytes; bytes after the last field are ignored
from_bytes(bytes) ==
    LET data_len == read_u64(bytes, 0)
    IN  IF ~data_len.ok \/ data_len.val > Len(bytes) - 8 THEN Fail("InvalidData")
        ELSE
        LET at_offsets == 8 + data_len.val
            count == read_u64(bytes, at_offsets)
        IN  IF ~count.ok \/ count.val > (Len(bytes) - at_offsets - 8) \div 8
            THEN Fail("InvalidData")
            ELSE
            LET at_sizes == at_offsets + 8 + 8 * count.val
                original_size == read_u64(bytes, at_sizes)
                chunk_size == read_u64(bytes, at_sizes + 8)
            IN  IF ~original_size.ok \/ ~chunk_size.ok THEN Fail("InvalidData")
                ELSE Ok([data |-> SubSeq(bytes, 9, at_offsets),
                         chunk_offsets |->
                             [i \in 1..count.val |->
                                 read_u64(bytes, at_offsets + 8 * i).val],
                         original_size |-> original_size.val,
                         chunk_size |-> chunk_size.val])

(***************************************************************************)
(* FileManager (storage/file_manager.rs)                                   *)
(***************************************************************************)
\* Shard::id
shard_id(file_hash, index) == << file_hash, "-shard-", index >>

\* FileManager::prepare_upload on a file holding data, with the key and the
\* nonces the random generator returned
prepare_upload(data, filename, cfg, file_key, nonce, key_nonce, t) ==
    LET original_size == Len(data)
        original_hash == ContentHash(data)
        encrypted == encrypt_file(file_key, nonce, data)
        encrypted_data == to_bytes(encrypted)
        encrypted_hash == ContentHash(encrypted_data)
        shards == encode(encrypted_data, cfg)
    IN  IF ~shards.ok THEN shards
        ELSE
        LET encrypted_file_key ==
                EncryptionKey_encrypt(Identity.encryption_key, key_nonce, file_key)
            shard_locations ==
                [i \in DOMAIN shards.val |->
                    [index |-> shards.val[i].index,
                     shard_id |-> shard_id(to_base58(original_hash), shards.val[i].index),
                     peers |-> << >>,
                     size |-> Len(shards.val[i].data),
                     hash |-> to_base58(ContentHash(shards.val[i].data))]]
            metadata ==
                [file_id |-> to_base58(original_hash),
                 filename |-> filename,
                 size |-> original_size,
                 mime_type |-> "application/octet-stream",
                 encrypted_hash |-> to_base58(encrypted_hash),
                 erasure_config |-> cfg,
                 shards |-> shard_locations,
                 created_at |-> t,
                 modified_at |-> t,
                 owner_id |-> Identity.public_id,
                 is_shared |-> FALSE,
                 shared_with |-> << >>,
                 encrypted_file_key |-> encrypted_file_key,
                 folder_id |-> None,
                 tags |-> << >>]
        IN  Ok([metadata |-> metadata, shards |-> shards.val])

\* the size reconstruct_file passes to decode, without the factor data_shards
estimated_size_mut(metadata) ==
    SumSeq([i \in DOMAIN metadata.shards |-> metadata.shards[i].size])
        \div total_shards(metadata.erasure_config)

\* the size reconstruct_file passes to decode
estimated_size(metadata) ==
    (SumSeq([i \in DOMAIN metadata.shards |-> metadata.shards[i].size])
        \div total_shards(metadata.erasure_config))
    * metadata.erasure_config.data_shards

\* the content hash check of reconstruct_file, inverted
hash_mismatch_mut(hash, file_id) == to_base58(hash) = file_id

\* the content hash check of reconstruct_file
hash_mismatch(hash, file_id) == to_base58(hash) # file_id

FResult(status, err, data, plaintext) ==
    [status |-> status, err |-> err, data |-> data, plaintext |-> plaintext]

\* FileManager::reconstruct_file; plaintext is what decrypt_file returned, if
\* it returned
reconstruct_file(metadata, shard_data) ==
    LET k == metadata.erasure_config.data_shards
        available == Cardinality({ i \in DOMAIN shard_data : IsSome(shard_data[i]) })
    IN  IF available < k
        THEN FResult("Err", InsufficientFragments(available, k), None, None)
        ELSE
        LET shards == [i \in DOMAIN shard_data |->
                          IF IsSome(shard_data[i])
                          THEN Some([index |-> i - 1,
                                     data |-> Unwrap(shard_data[i]),
                                     is_parity |-> (i - 1) >= k,
                                     original_size |-> 0])
                          ELSE None]
            encrypted_data == decode(shards, estimated_size(metadata), metadata.erasure_config)
        IN  IF ~encrypted_data.ok THEN FResult("Err", encrypted_data.err, None, None)
            ELSE
            LET file_key_bytes ==
                    EncryptionKey_decrypt(Identity.encryption_key, metadata.encrypted_file_key)
            IN  IF ~file_key_bytes.ok
                THEN FResult("Err", Encryption(file_key_bytes.err), None, None)
                ELSE IF Len(file_key_bytes.val) # KEY_SIZE
                THEN FResult("Err", Encryption("Invalid file key length"), None, None)
                ELSE
                LET encrypted_file == from_bytes(encrypted_data.val)
                IN  IF ~encrypted_file.ok
                    THEN FResult("Err", Encryption(encrypted_file.err), None, None)
                    ELSE
                    LET dec == decrypt_file(file_key_bytes.val, encrypted_file.val)
                    IN  IF dec.status = "Panic"
                        THEN FResult("Panic", Encryption(""), None, None)
                        ELSE IF dec.status = "Err"
                        THEN FResult("Err", Encryption("DecryptionFailed"), None, None)
                        ELSE IF hash_mismatch(ContentHash(dec.plaintext), metadata.file_id)
                        THEN FResult("Err", IntegrityCheckFailed, None, Some(dec.plaintext))
                        ELSE FResult("Ok", IntegrityCheckFailed, Some(dec.plaintext),
                                     Some(dec.plaintext))

(***************************************************************************)
(* File pipeline actions                                                   *)
(***************************************************************************)
\* prepare_upload(file): the metadata and the shards go out to the network;
\* a behaviour follows the one file its file manager prepares first
PrepareUpload ==
    \E data \in FilePayloads, rnd \in Randoms :
        pret.op = "new" /\
        LET r == prepare_upload(data, "file", erasure_config,
                                rnd.file_key, rnd.nonce, rnd.key_nonce, now)
        IN  /\ plain' = data
            /\ prepared' = r
            /\ meta_in' = IF r.ok THEN Some(r.val.metadata) ELSE None
            /\ slots' = IF r.ok
                        THEN [i \in DOMAIN r.val.shards |-> Some(r.val.shards[i].data)]
                        ELSE << >>
            /\ pret' = [NoResult("prepare_upload") EXCEPT
                            !.status = IF r.ok THEN "Ok" ELSE r.err.kind]
            /\ UNCHANGED << erasure_config, encoded, non_codec_vars >>

\* the offsets, in the serialized EncryptedFile of a plaintext of len bytes,
\* of one byte of each of its fields
FieldOffsets(len) ==
    LET chunks == chunk_count(len, CHUNK_SIZE)
        data_len == len + chunks * (NONCE_SIZE + TAG_SIZE)
    IN  { 0, 8 + data_len, 8 + data_len + 8 + 8 * chunks, 8 + data_len + 16 + 8 * chunks }
        \cup (IF chunks = 0 THEN {}
              ELSE { 8, 8 + NONCE_SIZE, 8 + data_len - 1, 8 + data_len + 8 })

FlipBit(byte) == IF byte % 2 = 0 THEN byte + 1 ELSE byte - 1

\* the number of slots that differ from the prepared shards
Corrupted ==
    Cardinality({ i \in DOMAIN slots :
                    IsSome(slots[i]) /\ Unwrap(slots[i]) # prepared.val.shards[i].data })

\* a peer returns a shard with one bit changed: in a field of the serialized
\* EncryptedFile, or in the first byte of a parity shard
CorruptShard ==
    /\ prepared.ok
    /\ Corrupted < MaxCorrupt
    /\ LET shard_size == Len(prepared.val.shards[1].data)
           k == erasure_config.data_shards
           targets == { << (off \div shard_size) + 1, (off % shard_size) + 1 >> :
                            off \in FieldOffsets(Len(plain)) }
                      \cup { << k + 1, 1 >> }
       IN  \E p \in targets :
               /\ IsSome(slots[p[1]])
               /\ slots' = [slots EXCEPT ![p[1]] =
                               Some([Unwrap(@) EXCEPT ![p[2]] = FlipBit(@)])]
    /\ pret' = NoResult("corrupt")
    /\ UNCHANGED << erasure_config, plain, encoded, prepared, meta_in, non_codec_vars >>

\* the metadata comes back from the DHT naming another file
TamperMetadata ==
    /\ IsSome(meta_in)
    /\ \E other \in FilePayloads :
           /\ to_base58(ContentHash(other)) # Unwrap(meta_in).file_id
           /\ meta_in' = Some([Unwrap(meta_in) EXCEPT !.file_id = to_base58(ContentHash(other))])
    /\ pret' = NoResult("tamper")
    /\ UNCHANGED << erasure_config, plain, encoded, prepared, slots, non_codec_vars >>

\* reconstruct_file(metadata, shard_data) on what the download obtained
ReconstructFile ==
    /\ IsSome(meta_in)
    /\ LET r == reconstruct_file(Unwrap(meta_in), slots)
       IN  pret' = [op |-> "reconstruct_file",
                    status |-> IF r.status = "Err" THEN r.err.kind ELSE r.status,
                    data |-> r.data,
                    have |-> IF r.status = "Err" THEN r.err.have ELSE 0,
                    need |-> IF r.status = "Err" THEN r.err.need ELSE 0,
                    plaintext |-> r.plaintext]
    /\ UNCHANGED << erasure_config, plain, encoded, prepared, meta_in, slots,
                    non_codec_vars >>

(***************************************************************************)
(* A file uploaded more than once.  The file manager prepares the file,    *)
(* indexes its metadata, the shards are stored on hosting peers under      *)
(* their shard ids, and a download fetches shards by the shard ids of      *)
(* the indexed metadata.                                                   *)
(***************************************************************************)
\* FileManager::add_to_index
add_to_index(index, metadata) == MapPut(index, metadata.file_id, metadata)

\* FileManager::get_metadata
get_metadata(index, file_id) ==
    IF file_id \in DOMAIN index THEN Some(index[file_id]) ELSE None

\* prepare_upload of a file; of the same file when one was prepared before
PrepareFile ==
    \E data \in FilePayloads, rnd \in Randoms :
        /\ prepared # NotCalled => data = plain
        /\ LET r == prepare_upload(data, "file", erasure_config,
                                   rnd.file_key, rnd.nonce, rnd.key_nonce, now)
           IN  /\ r.ok
               /\ plain' = data
               /\ prepared' = r
        /\ pret' = NoResult("prepare_upload")
        /\ UNCHANGED << erasure_config, encoded, meta_in, slots, drive_vars,
                        non_drive_vars >>

\* add_to_index(metadata) with the metadata of the last prepare_upload
AddToIndex ==
    /\ prepared # NotCalled
    /\ file_index' = add_to_index(file_index, prepared.val.metadata)
    /\ pret' = NoResult("add_to_index")
    /\ UNCHANGED << erasure_config, plain, encoded, prepared, meta_in, slots, hosted,
                    non_drive_vars >>

\* a shard of the last prepare_upload is stored on a peer, under its
\* shard_id; the peer's index is a map keyed by the fragment id
StoreShard ==
    /\ prepared # NotCalled
    /\ \E peer \in HostPeers, i \in DOMAIN prepared.val.shards :
           hosted' = [hosted EXCEPT ![peer] =
                         MapPut(@, prepared.val.metadata.shards[i].shard_id,
                                prepared.val.shards[i].data)]
    /\ pret' = NoResult("store_shard")
    /\ UNCHANGED << erasure_config, plain, encoded, prepared, meta_in, slots,
                    file_index, non_drive_vars >>

\* a download begins: get_metadata(file_id) of the file, no shard in hand yet
GetMetadata ==
    /\ prepared # NotCalled
    /\ LET found == get_metadata(file_index, prepared.val.metadata.file_id)
       IN  /\ IsSome(found)
           /\ meta_in' = found
           /\ slots' = [i \in DOMAIN Unwrap(found).shards |-> None]
    /\ pret' = NoResult("get_metadata")
    /\ UNCHANGED << erasure_config, plain, encoded, prepared, drive_vars,
                    non_drive_vars >>

\* the download fetches a shard, by the shard_id in its metadata, from a
\* peer that hosts a fragment of that id
FetchShard ==
    \E peer \in HostPeers, i \in DOMAIN slots :
        /\ IsSome(meta_in)
        /\ Unwrap(meta_in).shards[i].shard_id \in DOMAIN hosted[peer]
        /\ slots' = [slots EXCEPT ![i] =
                        Some(hosted[peer][Unwrap(meta_in).shards[i].shard_id])]
        /\ pret' = NoResult("fetch_shard")
        /\ UNCHANGED << erasure_config, plain, encoded, prepared, meta_in, drive_vars,
                        non_drive_vars >>

(***************************************************************************)
(* PeerManager (p2p/discovery.rs)                                          *)
(*                                                                         *)
(* f32 values are kept in fixed point: reliability in tenths (9 is 0.9),   *)
(* the composite score as an exact fraction << numerator, denominator >>.  *)
(* The fields addresses, behind_nat and agent_version of PeerInfo are      *)
(* never read by the manager and are left out.                             *)
(***************************************************************************)
MaxHours == 1
MaxRequired == 2

PeerIds == { "peer1", "peer2" }
PeerTimes == { 0 } \cup UNION { { h * 3600 - 1, h * 3600 + 1 } : h \in 1..MaxHours }
DeltaInputs == { -9, 9 }
RequiredInputs == 1..MaxRequired
CountInputs == 1..Cardinality(PeerIds)

PeerInfo(id, offered, available, reliability, latency, seen) ==
    [peer_id |-> id, storage_offered |-> offered, storage_available |-> available,
     reliability |-> reliability, latency_ms |-> latency, last_seen |-> seen]

create_test_peer(id, available, reliability) ==
    PeerInfo(id, available * 2, available, reliability, 100, 0)

\* a peer as the tests make it, and a slow peer whose whole offer is free
PeerInputs(id) ==
    { create_test_peer(id, 1, 9),
      PeerInfo(id, MaxRequired, MaxRequired, 9, 2000, 0) }

HashOrders ==
    { o \in [1..Cardinality(PeerIds) -> PeerIds] :
        \A i, j \in DOMAIN o : o[i] = o[j] => i = j }

DefaultHashOrder == CHOOSE o \in HashOrders : TRUE

touch(info, t) == [info EXCEPT !.last_seen = t]

is_stale(info, max_age_seconds, t) == t - info.last_seen > max_age_seconds

\* 0.4 * reliability + 0.3 * (1 - min(latency_ms, 1000) / 1000)
\*   + 0.3 * (available / offered, or 0 when nothing is offered),
\* over the denominator 10000 * offered
score(info) ==
    LET offered == IF info.storage_offered > 0 THEN info.storage_offered ELSE 1
        available == IF info.storage_offered > 0 THEN info.storage_available ELSE 0
    IN  << (400 * info.reliability + 3 * (1000 - Min(info.latency_ms, 1000))) * offered
             + 3000 * available,
           10000 * offered >>

\* partial_cmp on two scores: "Less", "Equal" or "Greater"
partial_cmp(x, y) ==
    IF x[1] * y[2] < y[1] * x[2] THEN "Less"
    ELSE IF x[1] * y[2] > y[1] * x[2] THEN "Greater"
    ELSE "Equal"

MANAGER_MIN_RELIABILITY == 3
MANAGER_MAX_AGE_SECONDS == 3600
AUTO_BLACKLIST_BELOW == 1
AUTO_BLACKLIST_SECONDS == 3600

PeerManager_new ==
    [peers |-> EmptyMap, blacklist |-> EmptyMap,
     min_reliability |-> MANAGER_MIN_RELIABILITY,
     max_age_seconds |-> MANAGER_MAX_AGE_SECONDS]

PeerMgr == [PeerManager_new EXCEPT !.peers = peers, !.blacklist = blacklist]

add_peer(m, info, t) ==
    [m EXCEPT !.peers = MapPut(m.peers, info.peer_id, touch(info, t))]

blacklist_peer(m, peer_id, duration_seconds, t) ==
    [m EXCEPT !.blacklist = MapPut(m.blacklist, peer_id, t + duration_seconds)]

clamp(x, lo, hi) == IF x < lo THEN lo ELSE IF x > hi THEN hi ELSE x

auto_blacklist_mut(reliability) == FALSE

auto_blacklist(reliability) == reliability < AUTO_BLACKLIST_BELOW

update_reliability(m, peer_id, delta, t) ==
    IF peer_id \in DOMAIN m.peers
    THEN LET r == clamp(m.peers[peer_id].reliability + delta, 0, 10)
             m1 == [m EXCEPT !.peers[peer_id].reliability = r]
         IN  IF auto_blacklist(r)
             THEN blacklist_peer(m1, peer_id, AUTO_BLACKLIST_SECONDS, t)
             ELSE m1
    ELSE m

is_blacklisted(m, peer_id, t) ==
    /\ peer_id \in DOMAIN m.blacklist
    /\ t < m.blacklist[peer_id]

prune_stale(m, t) ==
    LET fresh == { id \in DOMAIN m.peers : t - m.peers[id].last_seen <= m.max_age_seconds }
        running == { id \in DOMAIN m.blacklist : t < m.blacklist[id] }
    IN  [m EXCEPT !.peers = [id \in fresh |-> m.peers[id]],
                  !.blacklist = [id \in running |-> m.blacklist[id]]]

\* self.peers.values(): the entries in the order the map iterates them
values(map, order) ==
    LET present(id) == id \in DOMAIN map
        ids == SelectSeq(order, present)
    IN  [i \in 1..Len(ids) |-> map[ids[i]]]

\* place x behind every element the comparator does not put after it
InsertSorted(sorted, x) ==
    LET later == { i \in 1..Len(sorted) :
                     partial_cmp(score(x), score(sorted[i])) = "Greater" }
        at == IF later = {} THEN Len(sorted) + 1
              ELSE CHOOSE i \in later : \A j \in later : i <= j
    IN  SubSeq(sorted, 1, at - 1) \o << x >> \o SubSeq(sorted, at, Len(sorted))

RECURSIVE sort_by_score(_)
\* candidates.sort_by(|a, b| b.score().partial_cmp(&a.score()).unwrap()):
\* a stable sort, highest score first
sort_by_score(seq) ==
    IF seq = << >> THEN << >>
    ELSE InsertSorted(sort_by_score(SubSeq(seq, 1, Len(seq) - 1)), seq[Len(seq)])

take(seq, count) == SubSeq(seq, 1, Min(count, Len(seq)))

storage_candidate_mut(m, p, required_bytes, t) ==
    /\ ~is_blacklisted(m, p.peer_id, t)
    /\ p.reliability >= m.min_reliability
    /\ ~is_stale(p, m.max_age_seconds, t)

storage_candidate(m, p, required_bytes, t) ==
    /\ ~is_blacklisted(m, p.peer_id, t)
    /\ p.reliability >= m.min_reliability
    /\ p.storage_available >= required_bytes
    /\ ~is_stale(p, m.max_age_seconds, t)

select_storage_peers(m, order, required_bytes, count, t) ==
    LET wanted(p) == storage_candidate(m, p, required_bytes, t)
        candidates == SelectSeq(values(m.peers, order), wanted)
    IN  take(sort_by_score(candidates), count)

healthy_peers(m, order, t) ==
    LET healthy(p) == /\ ~is_blacklisted(m, p.peer_id, t)
                      /\ p.reliability >= m.min_reliability
                      /\ ~is_stale(p, m.max_age_seconds, t)
    IN  SelectSeq(values(m.peers, order), healthy)

\* ---- the calls ----
NResult(op, id, required, count, list) ==
    [op |-> op, id |-> id, required |-> required, count |-> count, list |-> list]

SetPeerMgr(m) ==
    /\ peers' = m.peers
    /\ blacklist' = m.blacklist

AddPeer ==
    \E id \in PeerIds : \E info \in PeerInputs(id) :
        /\ SetPeerMgr(add_peer(PeerMgr, info, now))
        /\ first_seen' = IF id \in DOMAIN peers THEN first_seen ELSE Append(first_seen, id)
        /\ nret' = NResult("add_peer", "", 0, 0, << >>)
        /\ UNCHANGED << hash_order, low_since, now, non_peer_vars >>

UpdateReliability ==
    \E id \in PeerIds, delta \in DeltaInputs :
        LET m == update_reliability(PeerMgr, id, delta, now)
        IN  /\ SetPeerMgr(m)
            /\ low_since' = IF id \in DOMAIN m.peers /\ m.peers[id].reliability < 1
                            THEN [low_since EXCEPT ![id] = Some(now)]
                            ELSE low_since
            /\ nret' = NResult("update_reliability", id, 0, 0, << >>)
            /\ UNCHANGED << hash_order, first_seen, now, non_peer_vars >>

\* a ban of two hours, besides the automatic one of an hour
BlacklistDurations == { 2 * AUTO_BLACKLIST_SECONDS }

BlacklistPeer ==
    \E id \in PeerIds, duration_seconds \in BlacklistDurations :
        /\ SetPeerMgr(blacklist_peer(PeerMgr, id, duration_seconds, now))
        /\ nret' = NResult("blacklist_peer", id, 0, 0, << >>)
        /\ UNCHANGED << hash_order, first_seen, low_since, now, non_peer_vars >>

PruneStale ==
    LET m == prune_stale(PeerMgr, now)
    IN  /\ SetPeerMgr(m)
        /\ first_seen' = LET known(id) == id \in DOMAIN m.peers
                         IN  SelectSeq(first_seen, known)
        /\ nret' = NResult("prune_stale", "", 0, 0, << >>)
        /\ UNCHANGED << hash_order, low_since, now, non_peer_vars >>

SelectStoragePeers ==
    \E required \in RequiredInputs, count \in CountInputs :
        /\ nret' = NResult("select_storage_peers", "", required, count,
                           select_storage_peers(PeerMgr, hash_order, required, count, now))
        /\ UNCHANGED << peers, blacklist, hash_order, first_seen, low_since, now,
                        non_peer_vars >>

HealthyPeers ==
    /\ nret' = NResult("healthy_peers", "", 0, 0, healthy_peers(PeerMgr, hash_order, now))
    /\ UNCHANGED << peers, blacklist, hash_order, first_seen, low_since, now,
                    non_peer_vars >>

PeerTick ==
    /\ \E t \in PeerTimes : t > now /\ now' = t
    /\ UNCHANGED << peer_vars, non_peer_vars >>

\* PeerManager::new() in a process whose map iterates in `order`
PeerNew(order) ==
    /\ peers = PeerManager_new.peers
    /\ blacklist = PeerManager_new.blacklist
    /\ hash_order = order
    /\ first_seen = << >>
    /\ low_since = [id \in PeerIds |-> None]
    /\ nret = NResult("new", "", 0, 0, << >>)

(***************************************************************************)
(* StorageContract (p2p/protocol.rs). Only created_at and expires_at are   *)
(* read or written by the methods modelled; the identifiers, the size and  *)
(* the signatures of a contract never change.                              *)
(***************************************************************************)
MaxContractDays == 2
MaxHalfDays == 4

DAY_SECONDS == 24 * 60 * 60
ContractDayInputs == 0..MaxContractDays

StorageContract_new(expiration_days, t) ==
    [created_at |-> t, expires_at |-> t + expiration_days * DAY_SECONDS]

is_expired(c, t) == t > c.expires_at

extend(c, days, t) == [c EXCEPT !.expires_at = t + days * DAY_SECONDS]

\* i64 division truncates toward zero
trunc_div(a, b) == IF a >= 0 THEN a \div b ELSE -((-a) \div b)

days_until_expiration(c, t) == trunc_div(c.expires_at - t, DAY_SECONDS)

CResult(op, days, value) == [op |-> op, days |-> days, value |-> value]

Extend ==
    \E days \in ContractDayInputs :
        /\ IsSome(contract)
        /\ contract' = Some(extend(Unwrap(contract), days, now))
        /\ cret' = CResult("extend", days, 0)
        /\ UNCHANGED << now, non_contract_vars >>

IsExpired ==
    /\ IsSome(contract)
    /\ cret' = CResult("is_expired", 0, is_expired(Unwrap(contract), now))
    /\ UNCHANGED << contract, now, non_contract_vars >>

DaysUntilExpiration ==
    /\ IsSome(contract)
    /\ cret' = CResult("days_until_expiration", 0, days_until_expiration(Unwrap(contract), now))
    /\ UNCHANGED << contract, now, non_contract_vars >>

ContractTick ==
    /\ now + DAY_SECONDS \div 2 <= MaxHalfDays * (DAY_SECONDS \div 2)
    /\ now' = now + DAY_SECONDS \div 2
    /\ UNCHANGED << contract_vars, non_contract_vars >>

\* no contract has been made
ContractNone ==
    /\ contract = None
    /\ cret = CResult("none", 0, 0)

\* StorageContract::new(.., expiration_days)
ContractNew(expiration_days) ==
    /\ contract = Some(StorageContract_new(expiration_days, now))
    /\ cret = CResult("new", expiration_days, 0)

(***************************************************************************)
(* UserIdentity::generate_heartbeat and HeartbeatMessage                   *)
(* (identity/mod.rs). Ed25519 is kept symbolic: a signature names the      *)
(* signing key and the exact bytes signed, and verifies only under the     *)
(* matching verifying key over the same bytes.                             *)
(***************************************************************************)
MaxBeatSteps == 4

BeatIdentities == { "seed-a", "seed-b" }
BeatTimes == { t \in { k * 30 + d : k \in 0..MaxBeatSteps, d \in { -1, 0, 1 } } : t >= 0 }
\* the window of the tests
WindowInputs == { 60 }

verifying_key_of(signing_seed) == << "ed25519-public", signing_seed >>
derive_node_id(signing_seed) == << "sha256", verifying_key_of(signing_seed) >>
public_id(signing_seed) == to_base58(derive_node_id(signing_seed))

RECURSIVE Decimal(_)
\* Display of an integer: its decimal digits, most significant first
Decimal(n) ==
    IF n < 0 THEN << "-" >> \o Decimal(-n)
    ELSE IF n < 10 THEN << n >>
    ELSE Decimal(n \div 10) \o << n % 10 >>

\* format!("heartbeat:{}:{}", node_id, timestamp)
heartbeat_message(node_id, timestamp) ==
    << "heartbeat:", node_id, ":" >> \o Decimal(timestamp)

SIGNATURE_LENGTH == 64

\* UserIdentity::sign
sign(signing_seed, message) ==
    [signer |-> signing_seed, message |-> message, len |-> SIGNATURE_LENGTH]

\* VerifyingKey::verify
ed25519_verify(verifying_key, message, signature) ==
    /\ verifying_key = verifying_key_of(signature.signer)
    /\ message = signature.message

generate_heartbeat(signing_seed, t) ==
    [node_id |-> public_id(signing_seed),
     timestamp |-> t,
     signature |-> sign(signing_seed, heartbeat_message(public_id(signing_seed), t))]

heartbeat_verify(h, verifying_key) ==
    IF h.signature.len # SIGNATURE_LENGTH THEN FALSE
    ELSE ed25519_verify(verifying_key, heartbeat_message(h.node_id, h.timestamp), h.signature)

abs(x) == IF x < 0 THEN -x ELSE x

\* a window that still counts the second in which it ends
is_recent_mut(h, max_age_seconds, t) == abs(t - h.timestamp) <= max_age_seconds

is_recent(h, max_age_seconds, t) == abs(t - h.timestamp) < max_age_seconds

HResult(op, who, window, value) == [op |-> op, who |-> who, window |-> window, value |-> value]

GenerateHeartbeat ==
    \E id \in BeatIdentities :
        /\ heartbeat' = Some(generate_heartbeat(id, now))
        /\ hret' = HResult("generate_heartbeat", id, 0, TRUE)
        /\ UNCHANGED << now, non_beat_vars >>

VerifyHeartbeat ==
    \E id \in BeatIdentities :
        /\ IsSome(heartbeat)
        /\ hret' = HResult("verify", id, 0,
                           heartbeat_verify(Unwrap(heartbeat), verifying_key_of(id)))
        /\ UNCHANGED << heartbeat, now, non_beat_vars >>

IsRecent ==
    \E w \in WindowInputs :
        /\ IsSome(heartbeat)
        /\ hret' = HResult("is_recent", "", w, is_recent(Unwrap(heartbeat), w, now))
        /\ UNCHANGED << heartbeat, now, non_beat_vars >>

\* the message is a plain struct with public fields: whoever relays it can
\* present another timestamp, or cut the signature short
AlterHeartbeat ==
    /\ IsSome(heartbeat)
    /\ \/ \E t \in BeatTimes \ { Unwrap(heartbeat).timestamp } :
             heartbeat' = Some([Unwrap(heartbeat) EXCEPT !.timestamp = t])
       \/ /\ Unwrap(heartbeat).signature.len = SIGNATURE_LENGTH
          /\ heartbeat' = Some([Unwrap(heartbeat) EXCEPT !.signature.len = @ - 1])
    /\ hret' = HResult("alter", "", 0, TRUE)
    /\ UNCHANGED << now, non_beat_vars >>

BeatTick ==
    /\ \E t \in BeatTimes : t > now /\ now' = t
    /\ UNCHANGED << beat_vars, non_beat_vars >>

\* no heartbeat has been made
BeatNone ==
    /\ heartbeat = None
    /\ hret = HResult("none", "", 0, TRUE)

(***************************************************************************)
(* P2PNode::run (p2p/node.rs). The swarm is the environment: it opens and  *)
(* closes connections and delivers requests and responses; each action is  *)
(* one swarm event together with the arm of the event loop that handles    *)
(* it.                                                                     *)
(***************************************************************************)
MaxConnections == 2
MaxRequests == 2

NodePeers == { "peer-a", "peer-b" }
RequestKinds == { "Store", "Retrieve", "Delete", "Heartbeat", "QueryAvailability",
                  "StorageChallenge", "GetStorageInfo" }
ErrorCodes == { "NotFound", "InsufficientSpace", "InvalidSignature", "Expired",
                "PermissionDenied", "RateLimited", "InvalidRequest", "InternalError" }

\* the success variant of StorageResponse that answers each StorageRequest
SuccessVariant(kind) ==
    CASE kind = "Store" -> "Stored"
      [] kind = "Retrieve" -> "Data"
      [] kind = "Delete" -> "Deleted"
      [] kind = "Heartbeat" -> "HeartbeatAck"
      [] kind = "QueryAvailability" -> "Availability"
      [] kind = "StorageChallenge" -> "StorageProof"
      [] kind = "GetStorageInfo" -> "StorageInfo"

P2PEvent(kind, peer, what) == [kind |-> kind, peer |-> peer, what |-> what]

NewListenAddr ==
    /\ last_event' = P2PEvent("Listening", "", "")
    /\ UNCHANGED << connected_peers, connections, inbound, non_node_vars >>

ConnectionEstablished ==
    \E peer_id \in NodePeers :
        /\ connections[peer_id] < MaxConnections
        /\ connections' = [connections EXCEPT ![peer_id] = @ + 1]
        /\ connected_peers' = connected_peers \cup { peer_id }
        /\ last_event' = P2PEvent("PeerConnected", peer_id, "")
        /\ UNCHANGED << inbound, non_node_vars >>

ConnectionClosed ==
    \E peer_id \in NodePeers :
        /\ connections[peer_id] > 0
        /\ connections' = [connections EXCEPT ![peer_id] = @ - 1]
        /\ connected_peers' = connected_peers \ { peer_id }
        /\ last_event' = P2PEvent("PeerDisconnected", peer_id, "")
        /\ UNCHANGED << inbound, non_node_vars >>

\* request_response::Message::Request: the request is forwarded on event_tx;
\* the response channel goes out of scope at the end of the arm, unused
StorageRequestReceived ==
    \E peer \in NodePeers, request \in RequestKinds :
        /\ connections[peer] > 0
        /\ Len(inbound) < MaxRequests
        /\ inbound' = Append(inbound, [peer |-> peer, request |-> request,
                                       responses |-> << >>])
        /\ last_event' = P2PEvent("StorageRequest", peer, request)
        /\ UNCHANGED << connected_peers, connections, non_node_vars >>

\* request_response::Message::Response
StorageResponseReceived ==
    \E peer \in NodePeers, request \in RequestKinds :
        /\ connections[peer] > 0
        /\ last_event' = P2PEvent("StorageResponse", peer, SuccessVariant(request))
        /\ UNCHANGED << connected_peers, connections, inbound, non_node_vars >>

\* P2PNode::new
NodeNew ==
    /\ connected_peers = {}
    /\ connections = [p \in NodePeers |-> 0]
    /\ inbound = << >>
    /\ last_event = P2PEvent("none", "", "")

(***************************************************************************)
(* Specifications                                                          *)
(***************************************************************************)
\* StorageManager::new followed by initialize() on an empty directory
StoreNew ==
    /\ fragment_index = EmptyMap
    /\ used_storage_bytes = 0
    /\ disk = EmptyMap
    /\ index_json = JsonAbsent
    /\ ret = Result("new", NoId, "ok", None, 0)
    /\ faults = 0
    /\ stored = [id \in FragIds |-> None]

StoreInit ==
    /\ StoreNew
    /\ now = 0
    /\ QuotaNew(DefaultQuotaConfig)
    /\ CodecNew(DefaultErasureConfig)
    /\ PeerNew(DefaultHashOrder)
    /\ ContractNone
    /\ BeatNone
    /\ NodeNew

StoreNext ==
    \/ StoreFragment
    \/ RetrieveFragment
    \/ DeleteFragment
    \/ ExtendFragment
    \/ ExtendOwnerFragments
    \/ CleanupExpired
    \/ Restart
    \/ TamperFile
    \/ Tick

SpecStore == StoreInit /\ [][StoreNext]_vars

QuotaInit ==
    /\ StoreNew
    /\ now = 0
    /\ \E cfg \in QuotaConfigs : QuotaNew(cfg)
    /\ CodecNew(DefaultErasureConfig)
    /\ PeerNew(DefaultHashOrder)
    /\ ContractNone
    /\ BeatNone
    /\ NodeNew

QuotaNext ==
    \/ CanUpload
    \/ RecordUpload
    \/ RecordDeletion
    \/ RecordShardHosted
    \/ RecordShardRemoved
    \/ QuotaTick

SpecQuota == QuotaInit /\ [][QuotaNext]_vars

\* Two uploads of one user who has left the grace period and has hosted
\* `contributed` bytes of other users' shards: the table after
\* record_shard_hosted at time 0 and a refused can_upload at time MaxTime.
UploadsInit ==
    /\ StoreNew
    /\ now = MaxTime
    /\ \E cfg \in QuotaConfigs, contributed \in 1..MaxBytes :
          /\ cfg.grace_period_secs = 0
          /\ config = cfg
          /\ quotas = [u \in Users |->
                [UserQuota_new(u, 0) EXCEPT !.bytes_contributed = contributed,
                                           !.shards_hosted = 1,
                                           !.in_grace_period = FALSE]]
    /\ uploads = [t \in Tasks |-> Idle]
    /\ qret = QResult("new", 0, "", 0, Allowed)
    /\ CodecNew(DefaultErasureConfig)
    /\ PeerNew(DefaultHashOrder)
    /\ ContractNone
    /\ BeatNone
    /\ NodeNew

UploadsNext ==
    \/ CanUpload
    \/ RecordUpload

SpecUploads == UploadsInit /\ [][UploadsNext]_vars

ErasureInit ==
    /\ StoreNew
    /\ now = 0
    /\ QuotaNew(DefaultQuotaConfig)
    /\ \E cfg \in ErasureConfigs : CodecNew(cfg)
    /\ PeerNew(DefaultHashOrder)
    /\ ContractNone
    /\ BeatNone
    /\ NodeNew

ErasureNext ==
    \/ Encode
    \/ DropShard
    \/ Decode

SpecErasure == ErasureInit /\ [][ErasureNext]_vars

FileInit == ErasureInit

FileNext ==
    \/ PrepareUpload
    \/ DropShard
    \/ CorruptShard
    \/ TamperMetadata
    \/ ReconstructFile

SpecFile == FileInit /\ [][FileNext]_vars

\* one file manager with a (1, 1) code and two hosting peers, its file
\* prepared and distributed any number of times, and downloads of the file
ReuploadConfigs == { [data_shards |-> 1, parity_shards |-> 1] }

ReuploadInit ==
    /\ StoreNew
    /\ now = 0
    /\ QuotaNew(DefaultQuotaConfig)
    /\ \E cfg \in ReuploadConfigs : CodecNew(cfg)
    /\ PeerNew(DefaultHashOrder)
    /\ ContractNone
    /\ BeatNone
    /\ NodeNew

ReuploadNext ==
    \/ PrepareFile
    \/ AddToIndex
    \/ StoreShard
    \/ GetMetadata
    \/ FetchShard
    \/ ReconstructFile

SpecReupload == ReuploadInit /\ [][ReuploadNext]_vars

PeerInit ==
    /\ StoreNew
    /\ now = 0
    /\ QuotaNew(DefaultQuotaConfig)
    /\ CodecNew(DefaultErasureConfig)
    /\ \E order \in HashOrders : PeerNew(order)
    /\ ContractNone
    /\ BeatNone
    /\ NodeNew

PeerNext ==
    \/ AddPeer
    \/ UpdateReliability
    \/ PruneStale
    \/ SelectStoragePeers
    \/ HealthyPeers
    \/ PeerTick

SpecPeers == PeerInit /\ [][PeerNext]_vars

\* the registry with bans placed by hand as well
BlacklistNext ==
    \/ AddPeer
    \/ UpdateReliability
    \/ BlacklistPeer
    \/ PruneStale
    \/ SelectStoragePeers
    \/ PeerTick

SpecBlacklist == StoreInit /\ [][BlacklistNext]_vars

ContractInit ==
    /\ StoreNew
    /\ now = 0
    /\ QuotaNew(DefaultQuotaConfig)
    /\ CodecNew(DefaultErasureConfig)
    /\ PeerNew(DefaultHashOrder)
    /\ \E days \in ContractDayInputs : ContractNew(days)
    /\ BeatNone
    /\ NodeNew

ContractNext ==
    \/ Extend
    \/ IsExpired
    \/ DaysUntilExpiration
    \/ ContractTick

SpecContract == ContractInit /\ [][ContractNext]_vars

BeatInit ==
    /\ StoreNew
    /\ now \in BeatTimes
    /\ QuotaNew(DefaultQuotaConfig)
    /\ CodecNew(DefaultErasureConfig)
    /\ PeerNew(DefaultHashOrder)
    /\ ContractNone
    /\ BeatNone
    /\ NodeNew

BeatNext ==
    \/ GenerateHeartbeat
    \/ VerifyHeartbeat
    \/ IsRecent
    \/ AlterHeartbeat
    \/ BeatTick

SpecHeartbeat == BeatInit /\ [][BeatNext]_vars

NodeInit == StoreInit

NodeNext ==
    \/ NewListenAddr
    \/ ConnectionEstablished
    \/ ConnectionClosed
    \/ StorageRequestReceived
    \/ StorageResponseReceived

SpecNode == NodeInit /\ [][NodeNext]_vars

StoreTypeOK ==
    /\ used_storage_bytes \in Nat
    /\ now \in 0..MaxTime
    /\ DOMAIN fragment_index \subseteq FragIds


(***************************************************************************)
(* Claims about the fragment store                                         *)
(***************************************************************************)

\* the step just taken was a call of `op` on `id`
Called(op, id) == ret'.op = op /\ ret'.id = id

\* C1: used_storage_bytes never exceeds max_storage_bytes, and a
\* store_fragment whose payload would take used + |data| above
\* max_storage_bytes returns the insufficient-space error and stores nothing.
C1_CapacityBound ==
    /\ [](used_storage_bytes <= MaxStorageBytes)
    /\ [][\A id \in FragIds :
            (Called("store", id) /\ used_storage_bytes + Len(Unwrap(ret'.data)) > MaxStorageBytes)
            => /\ ret'.status = "insufficient_space"
               /\ fragment_index' = fragment_index
               /\ used_storage_bytes' = used_storage_bytes
               /\ disk' = disk]_vars

\* C1 witness: the store is full and a further store_fragment was rejected
C1_Witness ==
    /\ ret.op = "store"
    /\ ret.status = "insufficient_space"
    /\ used_storage_bytes = MaxStorageBytes
    /\ DOMAIN fragment_index = FragIds

\* C3 (as claimed): whenever retrieve_fragment reports an integrity failure
\* (here with every I/O operation having succeeded, so that the mismatch comes
\* from the file having been altered) it returns no data and the fragment is
\* gone from the index and from the disk.
C3_TamperRemoves ==
    (faults = 0 /\ ret.op = "retrieve" /\ ret.status = "integrity_failed")
    => /\ ret.data = None
       /\ ret.id \notin DOMAIN fragment_index
       /\ local_path_of(ret.id) \notin DOMAIN disk

\* C4 (as claimed): retrieve_fragment on a fragment with now > expires_at
\* returns the expired error, removes the index entry and lowers the used
\* bytes by the fragment's size.
C4_ExpiredRetrieveOriginal ==
    [][\A id \in FragIds :
        (/\ Called("retrieve", id)
         /\ id \in DOMAIN fragment_index
         /\ now > fragment_index[id].expires_at)
        => /\ ret'.status = "expired"
           /\ id \notin DOMAIN fragment_index'
           /\ used_storage_bytes' = used_storage_bytes - fragment_index[id].size_bytes]_vars

\* C4 (amended): retrieve_fragment on a fragment with now > expires_at never
\* returns data and always removes the index entry; it returns the expired
\* error, with the file removed, the used bytes lowered by the fragment's
\* size and the index saved, exactly when removing the file and saving the
\* index succeed, and the error of the failed step otherwise.  No
\* retrieve_fragment call returns the bytes of a fragment that is expired.
C4_ExpiredRetrieve ==
    /\ [][\A id \in FragIds :
            (/\ Called("retrieve", id)
             /\ id \in DOMAIN fragment_index
             /\ now > fragment_index[id].expires_at)
            => /\ ret'.data = None
               /\ id \notin DOMAIN fragment_index'
               /\ ret'.status \in { "expired", "remove_failed", "save_failed" }
               /\ (faults' = faults) = (ret'.status = "expired")
               /\ ret'.status = "expired" =>
                     /\ local_path_of(id) \notin DOMAIN disk'
                     /\ used_storage_bytes' =
                            used_storage_bytes - fragment_index[id].size_bytes
                     /\ index_json' = JsonOf(fragment_index')]_vars
    /\ []((ret.op = "retrieve" /\ IsSome(ret.data))
            => /\ ret.id \in DOMAIN fragment_index
               /\ ~(now > fragment_index[ret.id].expires_at))

\* C4 witness: a retrieve of an expired fragment returned the expired error
\* and the fragment is gone while another fragment is still stored
C4_Witness ==
    /\ ret.op = "retrieve"
    /\ ret.status = "expired"
    /\ ret.id \notin DOMAIN fragment_index
    /\ local_path_of(ret.id) \notin DOMAIN disk
    /\ fragment_index # EmptyMap

\* C5 (as claimed): as long as no I/O operation has failed, the used bytes
\* equal the sum of size_bytes over the index entries, which is also what
\* initialize() recomputes from the persisted index.
C5_ByteAccounting ==
    faults = 0 =>
        /\ used_storage_bytes = SumSizes(fragment_index)
        /\ index_json.state = "valid" =>
              used_storage_bytes = SumSizes(index_json.index)

(***************************************************************************)
(* Claims about the quota manager                                          *)
(***************************************************************************)
\* the usage ceiling of a user outside the grace period:
\* min(floor(bytes_contributed / contribution_ratio), max_usage)
UsageCeiling(q, cfg) ==
    Min(div_ratio(q.bytes_contributed, cfg.contribution_ratio), cfg.max_usage)

\* C2: for a user outside the grace period, when can_upload(user, s) answers
\* Allowed and record_upload(user, s) is applied next, bytes_used afterwards
\* is at most bytes_contributed / contribution_ratio and at most max_usage.
C2_QuotaBound ==
    [][ ( /\ qret.op = "can_upload"
          /\ qret.result.kind = "Allowed"
          /\ qret'.op = "record_upload"
          /\ qret'.task = qret.task
          /\ ~quotas[qret.user].in_grace_period )
        => quotas'[qret.user].bytes_used <= UsageCeiling(quotas'[qret.user], config) ]_vars

\* C9: can_upload(user, size) answers Allowed exactly when, in the grace
\* period, size <= min_contribution, and otherwise
\* bytes_used + size <= min(floor(bytes_contributed / ratio), max_usage).
C9_AdmissionRule ==
    [][ qret'.op = "can_upload"
        => LET q == quotas'[qret'.user]
               size == qret'.size
           IN  (qret'.result.kind = "Allowed")
               <=> IF q.in_grace_period
                   THEN size <= config.min_contribution
                   ELSE q.bytes_used + size <= UsageCeiling(q, config) ]_vars

\* C10: whatever the interleaving of two uploads (can_upload, then
\* record_upload if Allowed) of a user outside the grace period, bytes_used
\* stays at most min(floor(bytes_contributed / ratio), max_usage).
C10_SerializedUploads ==
    \A u \in DOMAIN quotas :
        ~quotas[u].in_grace_period
            => quotas[u].bytes_used <= UsageCeiling(quotas[u], config)

\* C11: for a user with bytes_contributed = 0 in the grace period, a
\* can_upload / record_upload pair (no other upload in progress) never takes
\* bytes_used above the free budget min_contribution.
C11_GraceBudget ==
    [][ ( /\ qret.op = "can_upload"
          /\ qret.result.kind = "Allowed"
          /\ qret'.op = "record_upload"
          /\ qret'.task = qret.task
          /\ \A t \in Tasks \ { qret.task } : uploads[t].pc = "idle"
          /\ quotas[qret.user].in_grace_period
          /\ quotas[qret.user].bytes_contributed = 0 )
        => quotas'[qret.user].bytes_used <= config.min_contribution ]_vars

\* the user of the last can_upload has used nothing and contributed nothing,
\* the grace period is configured away and the ratio is 1.0
DenialCase(q, cfg, size) ==
    /\ cfg.grace_period_secs = 0
    /\ cfg.contribution_ratio = << 1, 1 >>
    /\ q.bytes_contributed = 0
    /\ q.bytes_used = 0
    /\ size > 0

SlotsFromEncode ==
    /\ encoded.ok
    /\ Len(slots) = Len(encoded.val)
    /\ \A i \in DOMAIN slots : slots[i] \in { None, Some(encoded.val[i]) }

Present == Cardinality({ i \in DOMAIN slots : IsSome(slots[i]) })
Erased == Len(slots) - Present

\* C8: decode over the k+m shards that encode(P) produced, with at most m of
\* them replaced by None and original_size = |P|, returns P; with m+1 or
\* more replaced by None it returns InsufficientFragments{have, need = k}.
C8_ErasureResilience ==
    (pret.op = "decode" /\ SlotsFromEncode)
        => /\ Erased <= erasure_config.parity_shards
                => pret.status = "Ok" /\ pret.data = Some(plain)
           /\ Erased >= erasure_config.parity_shards + 1
                => /\ pret.status = "InsufficientFragments"
                   /\ pret.have = Present
                   /\ pret.need = erasure_config.data_shards

\* decode has rebuilt an input that needed padding from parity alone
C8_Witness ==
    /\ pret.op = "decode"
    /\ SlotsFromEncode
    /\ erasure_config.data_shards = 2
    /\ Erased = erasure_config.parity_shards
    /\ ~IsSome(slots[1]) /\ ~IsSome(slots[2])
    /\ Len(plain) = 3
    /\ pret.data = Some(plain)

\* the download presents the metadata and the shards that prepare_upload
\* produced, some of the shards dropped
FromPrepare ==
    /\ prepared.ok
    /\ meta_in = Some(prepared.val.metadata)
    /\ Len(slots) = Len(prepared.val.shards)
    /\ \A i \in DOMAIN slots : slots[i] \in { None, Some(prepared.val.shards[i].data) }

\* C6: reconstruct_file on the metadata and the shards of prepare_upload, with
\* at most m of the k+m slots set to None, returns the original plaintext;
\* with fewer than k slots present it fails with
\* InsufficientFragments{have, need = k}.
C6_PipelineRoundTrip ==
    (pret.op = "reconstruct_file" /\ FromPrepare)
        => /\ Erased <= erasure_config.parity_shards
                => pret.status = "Ok" /\ pret.data = Some(plain)
           /\ Present < erasure_config.data_shards
                => /\ pret.status = "InsufficientFragments"
                   /\ pret.have = Present
                   /\ pret.need = erasure_config.data_shards

\* a file whose serialized ciphertext needed padding has come back from the
\* parity shards alone
C6_Witness ==
    /\ pret.op = "reconstruct_file"
    /\ FromPrepare
    /\ erasure_config = [data_shards |-> 2, parity_shards |-> 2]
    /\ ~IsSome(slots[1]) /\ ~IsSome(slots[2])
    /\ Len(plain) = 1
    /\ pret.status = "Ok"
    /\ pret.data = Some(plain)

\* C7: reconstruct_file never returns Ok with a plaintext whose content hash
\* in base58 differs from metadata.file_id; when the decrypted plaintext's
\* hash differs it fails with IntegrityCheckFailed.
C7_ReconstructIntegrity ==
    pret.op = "reconstruct_file"
        => /\ pret.status = "Ok"
                => /\ IsSome(pret.data)
                   /\ to_base58(ContentHash(Unwrap(pret.data))) = Unwrap(meta_in).file_id
           /\ ( /\ IsSome(pret.plaintext)
                /\ to_base58(ContentHash(Unwrap(pret.plaintext))) # Unwrap(meta_in).file_id )
                => pret.status = "IntegrityCheckFailed" /\ pret.data = None

\* the file decrypted, and its hash was not the file_id of the metadata
C7_Witness ==
    /\ pret.op = "reconstruct_file"
    /\ pret.status = "IntegrityCheckFailed"
    /\ IsSome(pret.plaintext)
    /\ to_base58(ContentHash(Unwrap(pret.plaintext))) # Unwrap(meta_in).file_id

(***************************************************************************)
(* Claims about the peer registry and the storage contract                 *)
(***************************************************************************)

\* the step just taken was a call of select_storage_peers / healthy_peers
SelectCalled == nret'.op = "select_storage_peers" /\ UNCHANGED << peers, blacklist, now >>
HealthyCalled == nret'.op = "healthy_peers" /\ UNCHANGED << peers, blacklist, now >>

\* what the claims require of a peer that may be returned for `required` bytes
Eligible(p, required) ==
    /\ ~(p.peer_id \in DOMAIN blacklist /\ now < blacklist[p.peer_id])
    /\ now - p.last_seen <= MANAGER_MAX_AGE_SECONDS
    /\ p.reliability >= MANAGER_MIN_RELIABILITY
    /\ p.storage_available >= required

ScoreAtLeast(p, q) == score(p)[1] * score(q)[2] >= score(q)[1] * score(p)[2]
ScoreEqual(p, q) == score(p)[1] * score(q)[2] = score(q)[1] * score(p)[2]

\* C13: every peer returned by select_storage_peers(required_bytes, count) is a
\* known peer that is not blacklisted, not stale, has reliability >=
\* min_reliability and storage_available >= required_bytes; at most count peers
\* are returned, none twice, in non-increasing order of composite score; and a
\* peer that qualifies but is not returned was cut by the count and has no
\* higher score than any returned peer.
C13_PeerSelection ==
    [][ SelectCalled =>
          LET out == nret'.list
              returned == { out[i].peer_id : i \in DOMAIN out }
          IN  /\ Len(out) <= nret'.count
              /\ \A i \in DOMAIN out :
                    /\ out[i].peer_id \in DOMAIN peers
                    /\ peers[out[i].peer_id] = out[i]
                    /\ Eligible(out[i], nret'.required)
              /\ \A i, j \in DOMAIN out :
                    /\ i < j => ScoreAtLeast(out[i], out[j])
                    /\ out[i].peer_id = out[j].peer_id => i = j
              /\ \A id \in DOMAIN peers \ returned :
                    Eligible(peers[id], nret'.required) =>
                       /\ Len(out) = nret'.count
                       /\ \A i \in DOMAIN out : ScoreAtLeast(out[i], peers[id]) ]_vars

\* a selection of one peer out of two that qualify, the other with a lower
\* score, made after time has passed
C13_Witness ==
    /\ nret.op = "select_storage_peers"
    /\ nret.count = 1
    /\ Len(nret.list) = 1
    /\ now > 0
    /\ \E id \in DOMAIN peers :
          /\ id # nret.list[1].peer_id
          /\ Eligible(peers[id], nret.required)
          /\ ~ScoreAtLeast(peers[id], nret.list[1])

PositionIn(seq, x) == CHOOSE i \in DOMAIN seq : seq[i] = x

\* C14: of two returned peers with equal composite score, the one that was
\* first added earlier comes first.
C14_TieBreak ==
    [][ SelectCalled =>
          LET out == nret'.list
          IN  \A i, j \in DOMAIN out :
                 (i < j /\ ScoreEqual(out[i], out[j])) =>
                    PositionIn(first_seen, out[i].peer_id)
                       < PositionIn(first_seen, out[j].peer_id) ]_vars

\* the step just taken was a call of update_reliability on `id`
UpdateCalled(id) == nret'.op = "update_reliability" /\ nret'.id = id /\ now' = now

Listed(list, id) == \E i \in DOMAIN list : list[i].peer_id = id

\* C15: update_reliability leaves the peer's reliability within [0, 1]; when
\* the result is below 0.1 the peer is blacklisted for an hour: until 3600 s
\* have passed neither select_storage_peers nor healthy_peers returns it,
\* whatever was called in between.
C15_AutoBlacklist ==
    [][ /\ \A id \in PeerIds :
              (UpdateCalled(id) /\ id \in DOMAIN peers) =>
                 /\ id \in DOMAIN peers'
                 /\ peers'[id].reliability >= 0
                 /\ peers'[id].reliability <= 10
                 /\ peers'[id].reliability < 1 =>
                       /\ id \in DOMAIN blacklist'
                       /\ blacklist'[id] = now + 3600
        /\ (SelectCalled \/ HealthyCalled) =>
              \A id \in PeerIds :
                 (IsSome(low_since[id]) /\ now < Unwrap(low_since[id]) + 3600) =>
                    ~Listed(nret'.list, id) ]_vars

\* a peer that fell below 0.1, was raised again and re-added, and is left out
\* of the healthy peers just before the hour ends
C15_Witness ==
    /\ nret.op = "healthy_peers"
    /\ \E id \in DOMAIN peers :
          /\ IsSome(low_since[id])
          /\ now > Unwrap(low_since[id])
          /\ now < Unwrap(low_since[id]) + 3600
          /\ peers[id].reliability >= MANAGER_MIN_RELIABILITY
          /\ peers[id].last_seen > Unwrap(low_since[id])
          /\ ~Listed(nret.list, id)

\* C16: extend(d) strictly increases expires_at, whatever the contract and d.
C16_ExtendIncreases ==
    [][ cret'.op = "extend" =>
          Unwrap(contract').expires_at > Unwrap(contract).expires_at ]_vars

(***************************************************************************)
(* Claims about the persisted index, cleanup and the store/retrieve round  *)
(* trip                                                                    *)
(***************************************************************************)

\* the operations of the fragment store that can change the index
MutatingOps == { "store", "retrieve", "delete", "extend", "extend_owner", "cleanup" }

\* C17: after every fragment-store operation that changes the in-memory index
\* and returns success, index.json holds exactly the in-memory index, so that
\* a restart followed by initialize() reproduces the same index.
C17_IndexPersisted ==
    [][ ( /\ ret'.op \in MutatingOps
          /\ ret'.status = "ok"
          /\ fragment_index' # fragment_index )
        => /\ index_json' = JsonOf(fragment_index')
           /\ initialize(Mgr', "ok").st.index = fragment_index' ]_vars

\* C18: whatever happens while the index is being saved, index.json is left
\* holding the complete previous index or the complete new one, never
\* something partial, so that initialize() after the crash succeeds.
C18_AtomicRewrite ==
    [][ /\ index_json' = index_json \/ index_json' = JsonOf(fragment_index')
        /\ initialize(Mgr', "ok").status = "ok" ]_vars

\* the step just taken was a call of cleanup_expired that returned Ok
CleanupReturned == ret'.op = "cleanup" /\ ret'.status = "ok" /\ now' = now

Retrieved(id) == ret'.op = "retrieve" /\ ret'.id = id /\ now' = now /\ faults' = faults

C21_Heartbeat ==
    [][ /\ (hret'.op = "generate_heartbeat" /\ now' = now) =>
              /\ heartbeat_verify(Unwrap(heartbeat'), verifying_key_of(hret'.who))
              /\ Unwrap(heartbeat').timestamp = now
        /\ (hret'.op = "is_recent" /\ now' = now /\ heartbeat' = heartbeat) =>
              LET age == now - Unwrap(heartbeat).timestamp
              IN  /\ hret'.value <=> (age < hret'.window /\ -age < hret'.window)
                  /\ (hret'.window = 60 /\ age = 30) => hret'.value
                  /\ (hret'.window = 60 /\ age = 120) => ~hret'.value ]_vars

\* a heartbeat that verifies under its maker's key and is found not recent
\* 120 s after it was issued
C21_Witness ==
    /\ hret.op = "is_recent"
    /\ hret.window = 60
    /\ ~hret.value
    /\ IsSome(heartbeat)
    /\ now = Unwrap(heartbeat).timestamp + 120
    /\ \E id \in BeatIdentities :
          heartbeat_verify(Unwrap(heartbeat), verifying_key_of(id))

\* C22: every StorageRequest delivered to the node has been answered to the
\* requesting peer, once the event loop is done with it, by exactly one
\* StorageResponse: the success variant of its kind or an Error with one of
\* the listed codes.
C22_RequestAnswered ==
    \A i \in DOMAIN inbound :
       /\ Len(inbound[i].responses) = 1
       /\ \/ inbound[i].responses[1] = SuccessVariant(inbound[i].request)
          \/ inbound[i].responses[1] \in { << "Error", code >> : code \in ErrorCodes }

\* C28: connected_peers is exactly the set of peers that have at least one
\* open connection.
C28_ConnectedPeers ==
    connected_peers = { p \in NodePeers : connections[p] > 0 }

(***************************************************************************)
(* Claims about renewal, access statistics and failed calls of the         *)
(* fragment store                                                          *)
(***************************************************************************)

C24_AccessCount ==
    [][ \A id \in DOMAIN fragment_index :
          (ret'.op = "retrieve" /\ ret'.id = id
             /\ ret'.status \in { "read_failed", "integrity_failed" }) =>
             /\ id \in DOMAIN fragment_index'
             /\ fragment_index'[id].access_count = fragment_index[id].access_count
             /\ fragment_index'[id].last_accessed = fragment_index[id].last_accessed ]_vars

\* C25: when store_fragment or delete_fragment returns an error, the
\* in-memory index and used_storage_bytes are what they were before the call
\* and used_storage_bytes is the sum of the indexed sizes.
C25_ErrorAtomicity ==
    [][ (ret'.op \in { "store", "delete" } /\ ret'.status # "ok") =>
          /\ fragment_index' = fragment_index
          /\ used_storage_bytes' = used_storage_bytes
          /\ used_storage_bytes' = SumSizes(fragment_index') ]_vars

\* C26: a blacklist is never shortened: while a peer is blacklisted until T
\* and T has not come, no call removes the entry or moves its expiry before
\* T, and select_storage_peers does not return the peer.
C26_BlacklistKept ==
    [][ \A id \in PeerIds :
          (id \in DOMAIN blacklist /\ now < blacklist[id]) =>
             /\ id \in DOMAIN blacklist'
             /\ blacklist'[id] >= blacklist[id]
             /\ SelectCalled => ~Listed(nret'.list, id) ]_vars


\* C27: when can_upload(user, size) answers InsufficientQuota with
\* needed_contribution = n for a user outside the grace period with
\* bytes_used + size <= max_usage, and record_shard_hosted(user, n) is the
\* next call, then can_upload(user, size) answers Allowed in the state that
\* call leaves, for contribution_ratio 1.0 and 1.5.
C27_NeededSuffices ==
    [][ ( /\ qret.op = "can_upload"
          /\ qret.result.kind = "InsufficientQuota"
          /\ ~quotas[qret.user].in_grace_period
          /\ quotas[qret.user].bytes_used + qret.size <= config.max_usage
          /\ qret'.op = "record_shard_hosted"
          /\ qret'.user = qret.user
          /\ qret'.size = qret.result.needed_contribution
          /\ now' = now )
        => can_upload(quotas', config, qret.user, qret.size, now').result.kind
               = "Allowed" ]_vars

\* the supplied shards whose hash is the ShardLocation.hash of the metadata
Authentic ==
    Cardinality({ i \in DOMAIN slots :
                    /\ IsSome(slots[i])
                    /\ to_base58(ContentHash(Unwrap(slots[i])))
                           = Unwrap(meta_in).shards[i].hash })

\* C30: reconstruct_file on the metadata of prepare_upload returns the
\* original plaintext whenever at least k of the supplied shards match their
\* ShardLocation.hash, even if other supplied shards have been altered.
C30_CorruptTolerated ==
    ( /\ pret.op = "reconstruct_file"
      /\ prepared.ok
      /\ meta_in = Some(prepared.val.metadata)
      /\ Len(slots) = Len(prepared.val.shards)
      /\ Authentic >= erasure_config.data_shards )
        => pret.status = "Ok" /\ pret.data = Some(plain)

\* C29: after the same plaintext was prepared for upload more than once,
\* reconstruct_file with the file's indexed metadata, which is that of the
\* latest upload, and at least k shards fetched by shard_id from hosting
\* peers, whichever upload each peer's copy came from, returns the plaintext.
C29_ReuploadStable ==
    ( /\ pret.op = "reconstruct_file"
      /\ prepared # NotCalled
      /\ meta_in = get_metadata(file_index, prepared.val.metadata.file_id)
      /\ meta_in = Some(prepared.val.metadata)
      /\ Present >= erasure_config.data_shards )
        => pret.status = "Ok" /\ pret.data = Some(plain)

====
